---- MODULE Spec2Model ----
(***************************************************************************)
(* Asperic risk-graded reasoning pipeline.                                 *)
(*                                                                         *)
(* Text is a sequence of one-character strings.  Confidence values are     *)
(* integers in thousandths (0.4 is 400), so that rounding to two decimals  *)
(* is a real conversion.  A Python dict is a TLA+ function whose domain is *)
(* the set of keys that are present.                                       *)
(***************************************************************************)
EXTENDS Integers, Sequences, FiniteSets, TLC

VARIABLES pc, user_query, clean_query, llm, intent_signal, situation,
          depth_llm, raw_decision, reasoning_decision, semantic_profile,
          controller_client, memory_client, chats, chat_id, verification,
          context_text, raw_answer, final_answer, brain_response, calls, outcome

vars == <<pc, user_query, clean_query, llm, intent_signal, situation,
          depth_llm, raw_decision, reasoning_decision, semantic_profile,
          controller_client, memory_client, chats, chat_id, verification,
          context_text, raw_answer, final_answer, brain_response, calls, outcome>>

\* A value that stands for Python's None / "not yet produced".
NoVal == [none |-> TRUE]

\* dict.get(k, default)
Get(d, k, default) == IF k \in DOMAIN d THEN d[k] ELSE default

(***************************************************************************)
(* Characters and strings.  The alphabet is Latin-1 together with the      *)
(* characters named below; a character that a TLA+ string cannot hold is   *)
(* written by its code point ("U+2019").  On this alphabet the character   *)
(* classes and case mappings are those of Python 3 str and re (Unicode).   *)
(***************************************************************************)
\* Letters that have a one-character partner in the other case, paired by
\* position.
LowerLetters == <<
    "a", "b", "c", "d", "e", "f", "g", "h", "i", "j", "k", "l", "m", "n",
    "o", "p", "q", "r", "s", "t", "u", "v", "w", "x", "y", "z", "à", "á",
    "â", "ã", "ä", "å", "æ", "ç", "è", "é", "ê", "ë", "ì", "í", "î", "ï",
    "ð", "ñ", "ò", "ó", "ô", "õ", "ö", "ø", "ù", "ú", "û", "ü", "ý", "þ">>
UpperLetters == <<
    "A", "B", "C", "D", "E", "F", "G", "H", "I", "J", "K", "L", "M", "N",
    "O", "P", "Q", "R", "S", "T", "U", "V", "W", "X", "Y", "Z", "À", "Á",
    "Â", "Ã", "Ä", "Å", "Æ", "Ç", "È", "É", "Ê", "Ë", "Ì", "Í", "Î", "Ï",
    "Ð", "Ñ", "Ò", "Ó", "Ô", "Õ", "Ö", "Ø", "Ù", "Ú", "Û", "Ü", "Ý", "Þ">>
DigitChars == {"0","1","2","3","4","5","6","7","8","9"}
HexChars == DigitChars \cup {"a","b","c","d","e","f","A","B","C","D","E","F"}

Range(s) == {s[i] : i \in 1..Len(s)}

\* The characters \w matches: letters, the digits and numerics, "_".
WordChars ==
    Range(LowerLetters) \cup Range(UpperLetters) \cup DigitChars
    \cup {"_", "ª", "²", "³", "µ", "¹", "º", "¼", "½", "¾", "ß", "ÿ",
          "U+0178", "U+039C", "U+03BC"}

\* \w of Python's re module
IsWord(c) == c \in WordChars
\* \s of the re module, str.isspace, and the separators of split and strip
IsSpace(c) ==
    c \in {" ", "\t", "\n", "\r", "\f", "U+000B", "U+001C",
           "U+001D", "U+001E", "U+001F", "U+0085", "U+00A0", "U+1680", "U+2000",
           "U+2001", "U+2002", "U+2003", "U+2004", "U+2005", "U+2006", "U+2007",
           "U+2008", "U+2009", "U+200A", "U+2028", "U+2029", "U+202F", "U+205F",
           "U+3000"}
\* [\w\.-]
IsMailChar(c) == IsWord(c) \/ c \in {".", "-"}

\* str.lower() of one character
LowerChar(c) ==
    IF c \in Range(UpperLetters)
    THEN LowerLetters[CHOOSE i \in 1..Len(UpperLetters) : UpperLetters[i] = c]
    ELSE IF c = "U+0178" THEN "ÿ"
    ELSE IF c = "U+039C" THEN "U+03BC"
    ELSE c
Lower(s) == [i \in 1..Len(s) |-> LowerChar(s[i])]

\* str.upper() of one character, as text: the upper case of "ß" is "SS"
UpperChar(c) ==
    IF c \in Range(LowerLetters)
    THEN <<UpperLetters[CHOOSE i \in 1..Len(LowerLetters) : LowerLetters[i] = c]>>
    ELSE IF c = "ß" THEN <<"S", "S">>
    ELSE IF c = "ÿ" THEN <<"U+0178">>
    ELSE IF c \in {"µ", "U+03BC"} THEN <<"U+039C">>
    ELSE <<c>>
RECURSIVE Upper(_)
Upper(s) == IF s = <<>> THEN <<>> ELSE UpperChar(Head(s)) \o Upper(Tail(s))

\* k in s (substring test)
Contains(s, k) ==
    \E i \in 1..(Len(s) - Len(k) + 1) : SubSeq(s, i, i + Len(k) - 1) = k

\* s.startswith(k)
StartsWith(s, k) == Len(s) >= Len(k) /\ SubSeq(s, 1, Len(k)) = k

\* len(s.split())
WordCount(s) ==
    Cardinality({i \in 1..Len(s) : ~IsSpace(s[i]) /\ (i = 1 \/ IsSpace(s[i-1]))})

\* str.strip()
Strip(s) ==
    LET keep == {i \in 1..Len(s) : ~IsSpace(s[i])}
    IN IF keep = {} THEN <<>>
       ELSE LET lo == CHOOSE i \in keep : \A j \in keep : i <= j
                hi == CHOOSE i \in keep : \A j \in keep : i >= j
            IN SubSeq(s, lo, hi)

\* \b between positions i-1 and i of s (1-based; i ranges over 1..Len(s)+1)
Boundary(s, i) ==
    LET before == i > 1 /\ IsWord(s[i-1])
        after == i <= Len(s) /\ IsWord(s[i])
    IN before # after

\* largest e >= i-1 such that s[i..e] are all characters satisfying the class
RECURSIVE RunEnd(_, _, _)
RunEnd(s, i, class) ==
    IF i > Len(s) THEN i - 1
    ELSE IF (class = "mail" /\ IsMailChar(s[i]))
            \/ (class = "word" /\ IsWord(s[i]))
            \/ (class = "digit" /\ s[i] \in DigitChars)
            \/ (class = "hex" /\ s[i] \in HexChars)
            \/ (class = "space" /\ IsSpace(s[i]))
         THEN RunEnd(s, i + 1, class)
         ELSE i - 1

\* End of the match of [\w\.-]+@[\w\.-]+\.\w+ starting at i, or 0.
EmailMatchEnd(s, i) ==
    LET j == RunEnd(s, i, "mail") + 1          \* position of the '@'
    IN IF j = i \/ j > Len(s) \/ s[j] # "@" THEN 0
       ELSE LET k == RunEnd(s, j + 1, "mail")
                dots == {p \in (j + 2)..(k - 1) : s[p] = "." /\ IsWord(s[p+1])}
            IN IF dots = {} THEN 0
               ELSE LET p == CHOOSE q \in dots : \A r \in dots : q >= r
                    IN RunEnd(s, p + 1, "word")

\* End of the match of \b(?:[0-9]{1,3}\.){3}[0-9]{1,3}\b starting at i, or 0.
RECURSIVE IpGroups(_, _, _)
IpGroups(s, i, n) ==
    LET e == RunEnd(s, i, "digit")
        len == e - i + 1
    IN IF len < 1 \/ len > 3 THEN 0
       ELSE IF n = 0 THEN (IF Boundary(s, e + 1) THEN e ELSE 0)
       ELSE IF e + 1 <= Len(s) /\ s[e+1] = "." THEN IpGroups(s, e + 2, n - 1)
       ELSE 0
IpMatchEnd(s, i) == IF Boundary(s, i) THEN IpGroups(s, i, 3) ELSE 0

\* End of the match of \b[a-fA-F0-9]{32,}\b starting at i, or 0.
HexTokenMin == 32
HexMatchEnd(s, i) ==
    LET e == RunEnd(s, i, "hex")
    IN IF Boundary(s, i) /\ e - i + 1 >= HexTokenMin /\ Boundary(s, e + 1)
       THEN e ELSE 0

MatchEnd(kind, s, i) ==
    CASE kind = "email" -> EmailMatchEnd(s, i)
      [] kind = "ip" -> IpMatchEnd(s, i)
      [] kind = "hex" -> HexMatchEnd(s, i)

\* re.sub(pattern, repl, s): leftmost non-overlapping matches, scanned from i
RECURSIVE ReSubFrom(_, _, _, _)
ReSubFrom(kind, s, repl, i) ==
    IF i > Len(s) THEN <<>>
    ELSE LET e == MatchEnd(kind, s, i)
         IN IF e >= i THEN repl \o ReSubFrom(kind, s, repl, e + 1)
            ELSE <<s[i]>> \o ReSubFrom(kind, s, repl, i + 1)
ReSub(kind, s, repl) == ReSubFrom(kind, s, repl, 1)

\* s.replace(old, new) for a non-empty old
RECURSIVE ReplaceFrom(_, _, _, _)
ReplaceFrom(s, old, new, i) ==
    IF i > Len(s) THEN <<>>
    ELSE IF i + Len(old) - 1 <= Len(s) /\ SubSeq(s, i, i + Len(old) - 1) = old
         THEN new \o ReplaceFrom(s, old, new, i + Len(old))
         ELSE <<s[i]>> \o ReplaceFrom(s, old, new, i + 1)
Replace(s, old, new) == ReplaceFrom(s, old, new, 1)

\* re.search of words separated by \s+ (w1\s+w2\s+...), anywhere in s
RECURSIVE SpacedAt(_, _, _)
SpacedAt(s, words, i) ==
    LET w == Head(words)
        e == i + Len(w) - 1
    IN IF e > Len(s) \/ SubSeq(s, i, e) # w THEN FALSE
       ELSE IF Len(words) = 1 THEN TRUE
       ELSE LET g == RunEnd(s, e + 1, "space")
            IN g > e /\ SpacedAt(s, Tail(words), g + 1)
SearchSpaced(s, words) == \E i \in 1..Len(s) : SpacedAt(s, words, i)

(***************************************************************************)
(* Fixed texts                                                             *)
(***************************************************************************)
DATA_MASK == <<"[","D","A","T","A","_","M","A","S","K","]">>
SENSITIVE == <<"[","S","E","N","S","I","T","I","V","E","]">>
SENSITIVE_OPEN == <<"[","S","E","N","S","I","T","I","V","E">>
REDACTED == <<"[","R","E","D","A","C","T","E","D","]">>
STARS2 == <<"*","*">>
STARS3 == <<"*","*","*">>

(***************************************************************************)
(* JSON values returned by the external language-model services.  A field  *)
(* that should be a number may be a number, a non-numeric string or null;  *)
(* a field that should be a list may be a list or null.                    *)
(***************************************************************************)
Num(n) == [t |-> "num", v |-> n]
NonNum == [t |-> "str", v |-> 0]
Null == [t |-> "null", v |-> 0]
List(S) == [t |-> "list", v |-> S]
NullList == [t |-> "null", v |-> {}]

\* round(x, 2) on the float nearest to m / 1000, for |m| <= 2000.  Python
\* rounds the binary value, so a decimal that ends in 5 thousandths goes to
\* whichever side its float lies on (0.385 is stored above the tie and
\* gives 0.39; 0.015 is stored below it and gives 0.01); the floats that are
\* exact ties (0.125, 0.375, ...) go to the even neighbour.  round is odd:
\* round(-x, 2) = -round(x, 2).
Round2(m) ==
    LET a == IF m < 0 THEN 0 - m ELSE m
        q == a \div 10
        r == a % 10
        away == {5, 25, 35, 55, 65, 85, 95, 115, 135, 165, 195, 225,
                 255, 265, 275, 315, 325, 335, 375, 385, 395, 405, 445, 455,
                 465, 505, 515, 525, 535, 545, 555, 635, 645, 655, 665, 675,
                 685, 755, 765, 775, 785, 795, 805, 875, 885, 895, 905, 915,
                 925, 935, 1135, 1145, 1155, 1165, 1175, 1185, 1195, 1205, 1215, 1225,
                 1235, 1245, 1375, 1385, 1395, 1405, 1415, 1425, 1435, 1445, 1455, 1465,
                 1475, 1485, 1495, 1635, 1645, 1655, 1665, 1675, 1685, 1695, 1705, 1715,
                 1725, 1735, 1745, 1875, 1885, 1895, 1905, 1915, 1925, 1935, 1945, 1955,
                 1965, 1975, 1985, 1995}
        up == r > 5 \/ (r = 5 /\ a \in away)
        v == IF up THEN (q + 1) * 10 ELSE q * 10
    IN IF m < 0 THEN 0 - v ELSE v

(***************************************************************************)
(* encoder.py : AspericEncoder                                             *)
(***************************************************************************)
HARD_BLOCK_PATTERNS == <<
    <<<<"i","g","n","o","r","e">>, <<"p","r","e","v","i","o","u","s">>, <<"i","n","s","t","r","u","c","t","i","o","n","s">>>>,
    <<<<"r","e","v","e","a","l">>, <<"s","y","s","t","e","m">>, <<"p","r","o","m","p","t">>>>,
    <<<<"d","e","v","e","l","o","p","e","r">>, <<"m","e","s","s","a","g","e">>>>,
    <<<<"b","y","p","a","s","s">>, <<"s","e","c","u","r","i","t","y">>>>,
    <<<<"j","a","i","l","b","r","e","a","k">>, <<"t","h","e">>, <<"m","o","d","e","l">>>> >>

ENCODER_VERDICTS == {<<"S","A","F","E">>, <<"M","A","L","I","C","I","O","U","S">>,
                     <<"U","N","C","E","R","T","A","I","N">>}

local_scrub(text) ==
    LET t0 == Strip(Replace(Replace(text, STARS2, <<>>), STARS3, <<>>))
        t1 == ReSub("email", t0, DATA_MASK)
        t2 == ReSub("ip", t1, DATA_MASK)
    IN ReSub("hex", t2, DATA_MASK)

matches_hard_block(text) ==
    LET lowered == Lower(text)
    IN \E i \in 1..Len(HARD_BLOCK_PATTERNS) : SearchSpaced(lowered, HARD_BLOCK_PATTERNS[i])

\* reply: [kind |-> "raise"] or [kind |-> "text", content |-> chars]
semantic_threat_check(reply) ==
    IF reply.kind = "raise" THEN "UNCERTAIN"
    ELSE LET verdict == Upper(Strip(reply.content))
         IN IF verdict \in ENCODER_VERDICTS
            THEN (CASE verdict = <<"S","A","F","E">> -> "SAFE"
                    [] verdict = <<"M","A","L","I","C","I","O","U","S">> -> "MALICIOUS"
                    [] OTHER -> "UNCERTAIN")
            ELSE "UNCERTAIN"

block(reason, needed, why) ==
    [status |-> "BLOCK", signals |-> {"security:block"},
     refusal |-> [reason |-> reason, needed |-> needed, why_it_matters |-> why]]

process_input(query, reply) ==
    IF query = <<>> \/ Strip(query) = <<>>
    THEN block("Empty input", <<"Provide a valid question or instruction.">>,
               "The system cannot process empty input.")
    ELSE LET clean_text == local_scrub(query)
             s1 == IF clean_text # query THEN {"sanitize:applied"} ELSE {}
             verdict == semantic_threat_check(reply)
         IN IF matches_hard_block(clean_text)
            THEN block("High-confidence system manipulation attempt detected.",
                       <<"Remove system-level or control instructions.">>,
                       "System integrity must be preserved.")
            ELSE IF verdict = "MALICIOUS"
            THEN block("Unsafe or manipulative intent detected.",
                       <<"Rephrase the request safely.">>,
                       "This request could compromise system safety.")
            ELSE [status |-> "ALLOW", content |-> clean_text,
                  signals |-> s1 \cup (IF verdict = "UNCERTAIN"
                                       THEN {"llm:uncertain_security"} ELSE {})]

(***************************************************************************)
(* predictor.py : Predictor                                                *)
(***************************************************************************)
HIGH_RISK_KEYWORDS == <<
    <<"l","e","g","a","l">>,
    <<"l","a","w">>,
    <<"c","o","n","t","r","a","c","t">>,
    <<"t","a","x">>,
    <<"g","s","t">>,
    <<"c","o","m","p","l","i","a","n","c","e">>,
    <<"f","i","n","a","n","c","e">>,
    <<"i","n","v","e","s","t","m","e","n","t">>,
    <<"m","o","n","e","y">>,
    <<"l","o","a","n">>,
    <<"m","e","d","i","c","a","l">>,
    <<"h","e","a","l","t","h">>,
    <<"d","i","a","g","n","o","s","i","s">>,
    <<"p","r","o","d","u","c","t","i","o","n">>,
    <<"d","e","p","l","o","y">>,
    <<"s","e","c","u","r","i","t","y">>,
    <<"a","u","t","h","e","n","t","i","c","a","t","i","o","n">>,
    <<"i","m","m","i","g","r","a","t","i","o","n">>,
    <<"v","i","s","a">>,
    <<"e","x","a","m">>,
    <<"c","e","r","t","i","f","i","c","a","t","e">> >>

PREDICTOR_VERSION == "v2.0-consequence-aware"

contains_sensitive_mask(text) ==
    Contains(text, SENSITIVE_OPEN) \/ Contains(text, DATA_MASK)

contains_high_risk_keywords(text) ==
    \E i \in 1..Len(HIGH_RISK_KEYWORDS) : Contains(text, HIGH_RISK_KEYWORDS[i])

\* The dict the except branch of _llm_consequence_estimate returns.
PredictorFallback ==
    [route |-> "INFORMATIONAL", confidence |-> Num(300), signals |-> List({"llm_uncertain"})]

\* o: the outcome of the external call, [kind |-> "raise"] when the call or
\* json.loads raised, [kind |-> "json", body |-> dict] for a JSON object and
\* [kind |-> "json_not_object"] for any other JSON value.
llm_consequence_estimate(o) ==
    IF o.kind = "raise" THEN PredictorFallback ELSE Get(o, "body", NoVal)

\* predict raises (AttributeError / TypeError) instead of returning
predict_raises(o) ==
    \/ o.kind = "json_not_object"
    \/ /\ o.kind = "json"
       /\ \/ Get(o.body, "confidence", Num(500)).t # "num"
          \/ Get(o.body, "signals", List({})).t # "list"

predict_without_floor(text, o) ==
    LET lowered == Lower(text)
        s1 == IF contains_sensitive_mask(text) THEN {"sensitive_data_present"} ELSE {}
        s2 == IF contains_high_risk_keywords(lowered) THEN {"high_risk_domain"} ELSE {}
        llm_result == llm_consequence_estimate(o)
        route0 == Get(llm_result, "route", "INFORMATIONAL")
        confidence == Get(llm_result, "confidence", Num(500)).v
        llm_signals == Get(llm_result, "signals", List({})).v
        signals == s1 \cup s2 \cup llm_signals
        route1 == route0
        route2 == IF "decision_request" \in signals /\ route1 = "INFORMATIONAL"
                  THEN "DECISION_SUPPORT" ELSE route1
    IN [route |-> route2, confidence |-> Round2(confidence),
        signals |-> signals, version |-> PREDICTOR_VERSION]

predict(text, o) ==
    LET lowered == Lower(text)
        s1 == IF contains_sensitive_mask(text) THEN {"sensitive_data_present"} ELSE {}
        s2 == IF contains_high_risk_keywords(lowered) THEN {"high_risk_domain"} ELSE {}
        llm_result == llm_consequence_estimate(o)
        route0 == Get(llm_result, "route", "INFORMATIONAL")
        confidence == Get(llm_result, "confidence", Num(500)).v
        llm_signals == Get(llm_result, "signals", List({})).v
        signals == s1 \cup s2 \cup llm_signals
        route1 == IF "high_risk_domain" \in signals THEN "ACCOUNTABILITY_REQUIRED" ELSE route0
        route2 == IF "decision_request" \in signals /\ route1 = "INFORMATIONAL"
                  THEN "DECISION_SUPPORT" ELSE route1
    IN [route |-> route2, confidence |-> Round2(confidence),
        signals |-> signals, version |-> PREDICTOR_VERSION]

(***************************************************************************)
(* situation_interpreter.py : SituationInterpreter                         *)
(***************************************************************************)
POLICY_VERSION == "v1.0-stable"
LOW_STAKES == "LOW_STAKES"
INFORMATIONAL == "INFORMATIONAL"
DECISION_SUPPORT == "DECISION_SUPPORT"
ACCOUNTABILITY_REQUIRED == "ACCOUNTABILITY_REQUIRED"

\* The table with a row that requires verification and allows no refusal.
SITUATION_RULES_no_refusal ==
    (LOW_STAKES :> [ruleset |-> "relaxed", verification_required |-> FALSE,
                    refusal_allowed |-> FALSE, explanation_required |-> FALSE])
    @@ (INFORMATIONAL :> [ruleset |-> "standard", verification_required |-> FALSE,
                          refusal_allowed |-> FALSE, explanation_required |-> TRUE])
    @@ (DECISION_SUPPORT :> [ruleset |-> "strict", verification_required |-> TRUE,
                             refusal_allowed |-> TRUE, explanation_required |-> TRUE])
    @@ (ACCOUNTABILITY_REQUIRED :> [ruleset |-> "strict", verification_required |-> TRUE,
                                    refusal_allowed |-> FALSE, explanation_required |-> TRUE])

SITUATION_RULES ==
    (LOW_STAKES :> [ruleset |-> "relaxed", verification_required |-> FALSE,
                    refusal_allowed |-> FALSE, explanation_required |-> FALSE])
    @@ (INFORMATIONAL :> [ruleset |-> "standard", verification_required |-> FALSE,
                          refusal_allowed |-> FALSE, explanation_required |-> TRUE])
    @@ (DECISION_SUPPORT :> [ruleset |-> "strict", verification_required |-> TRUE,
                             refusal_allowed |-> TRUE, explanation_required |-> TRUE])
    @@ (ACCOUNTABILITY_REQUIRED :> [ruleset |-> "strict", verification_required |-> TRUE,
                                    refusal_allowed |-> TRUE, explanation_required |-> TRUE])

\* The threshold of the confidence guard, 0.4
CONFIDENCE_GUARD == 400

\* The signal overrides, applied in the order of the code.
signal_overrides_regulatory_only(route, signals) ==
    LET route1 == IF "regulatory_context" \in signals THEN ACCOUNTABILITY_REQUIRED ELSE route
    IN IF "decision_request" \in signals /\ route1 = INFORMATIONAL
       THEN DECISION_SUPPORT ELSE route1

\* The overrides with an upgrade that does not look at the route.
signal_overrides_upgrade_any(route, signals) ==
    LET route1 == IF "regulatory_context" \in signals THEN ACCOUNTABILITY_REQUIRED ELSE route
        route2 == IF "user_accountability" \in signals THEN ACCOUNTABILITY_REQUIRED ELSE route1
    IN IF "decision_request" \in signals /\ route2 # ACCOUNTABILITY_REQUIRED
       THEN DECISION_SUPPORT ELSE route2

signal_overrides(route, signals) ==
    LET route1 == IF "regulatory_context" \in signals THEN ACCOUNTABILITY_REQUIRED ELSE route
        route2 == IF "user_accountability" \in signals THEN ACCOUNTABILITY_REQUIRED ELSE route1
    IN IF "decision_request" \in signals /\ route2 = INFORMATIONAL
       THEN DECISION_SUPPORT ELSE route2

\* The lookup without the fail-safe route: an unknown route keeps its name.
policy_decision_keeps_route(route4, signals) ==
    LET known == route4 \in DOMAIN SITUATION_RULES
        rules == SITUATION_RULES[IF known THEN route4 ELSE INFORMATIONAL]
    IN [situation |-> route4,
        ruleset |-> rules.ruleset,
        verification_required |-> rules.verification_required,
        refusal_allowed |-> rules.refusal_allowed,
        explanation_required |-> rules.explanation_required,
        policy_version |-> POLICY_VERSION,
        signals |-> signals]

\* The row of SITUATION_RULES for a route, as a PolicyDecision.
policy_decision(route4, signals) ==
    LET known == route4 \in DOMAIN SITUATION_RULES
        route == IF known THEN route4 ELSE INFORMATIONAL
        rules == SITUATION_RULES[route]
    IN [situation |-> route,
        ruleset |-> rules.ruleset,
        verification_required |-> rules.verification_required,
        refusal_allowed |-> rules.refusal_allowed,
        explanation_required |-> rules.explanation_required,
        policy_version |-> POLICY_VERSION,
        signals |-> signals]

interpret_guard_inclusive(predictor_output) ==
    LET signals == Get(predictor_output, "signals", {})
        confidence == Get(predictor_output, "confidence", 0)
        route3 == signal_overrides(Get(predictor_output, "route", INFORMATIONAL), signals)
        route4 == IF confidence <= CONFIDENCE_GUARD
                     /\ route3 \in {DECISION_SUPPORT, ACCOUNTABILITY_REQUIRED}
                  THEN ACCOUNTABILITY_REQUIRED ELSE route3
    IN policy_decision(route4, signals)

\* interpret with a guard that lowers the route it does not trust.
interpret_guard_downgrades(predictor_output) ==
    LET signals == Get(predictor_output, "signals", {})
        confidence == Get(predictor_output, "confidence", 0)
        route3 == signal_overrides(Get(predictor_output, "route", INFORMATIONAL), signals)
        route4 == IF confidence < CONFIDENCE_GUARD
                     /\ route3 \in {DECISION_SUPPORT, ACCOUNTABILITY_REQUIRED}
                  THEN INFORMATIONAL ELSE route3
    IN policy_decision(route4, signals)

interpret(predictor_output) ==
    LET signals == Get(predictor_output, "signals", {})
        confidence == Get(predictor_output, "confidence", 0)
        route3 == signal_overrides(Get(predictor_output, "route", INFORMATIONAL), signals)
        route4 == IF confidence < CONFIDENCE_GUARD
                     /\ route3 \in {DECISION_SUPPORT, ACCOUNTABILITY_REQUIRED}
                  THEN ACCOUNTABILITY_REQUIRED ELSE route3
    IN policy_decision(route4, signals)

(***************************************************************************)
(* reasoning_controller.py : ReasoningController                           *)
(***************************************************************************)
CONTROLLER_VERSION == "v1.1-cognitive-depth"
DEPTHS == {"NONE", "LIGHT", "STRUCTURED", "RIGOROUS"}

RIGOROUS_TRIGGERS == <<
    <<"s","h","o","u","l","d"," ","i">>,
    <<"d","e","c","i","d","e">>,
    <<"a","r","c","h","i","t","e","c","t","u","r","e">>,
    <<"d","e","s","i","g","n">>,
    <<"s","t","r","a","t","e","g","y">>,
    <<"r","i","s","k">>,
    <<"p","r","o","d","u","c","t","i","o","n">>,
    <<"d","e","p","l","o","y">>,
    <<"l","e","g","a","l">>,
    <<"t","a","x">>,
    <<"f","i","n","a","n","c","e">>,
    <<"i","n","v","e","s","t","m","e","n","t">>,
    <<"m","e","d","i","c","a","l">>,
    <<"d","i","a","g","n","o","s","i","s">> >>

STRUCTURED_TRIGGERS == <<
    <<"h","o","w"," ","d","o"," ","i">>,
    <<"s","t","e","p","s">>,
    <<"p","r","o","c","e","s","s">>,
    <<"c","o","m","p","a","r","e">>,
    <<"d","i","f","f","e","r","e","n","c","e">>,
    <<"e","x","p","l","a","i","n">>,
    <<"a","n","a","l","y","z","e">> >>

\* the alternatives of ^(what is|define|meaning of)\b
TRIVIAL_PREFIXES == <<
    <<"w","h","a","t"," ","i","s">>,
    <<"d","e","f","i","n","e">>,
    <<"m","e","a","n","i","n","g"," ","o","f">> >>

\* len(query.split()) <= 5
TRIVIAL_MAX_WORDS == 5

AnyIn(text, triggers) == \E i \in 1..Len(triggers) : Contains(text, triggers[i])

is_trivial(query) ==
    LET lowered == Lower(query)
        short == WordCount(query) <= TRIVIAL_MAX_WORDS
        simple_pattern ==
            \E i \in 1..Len(TRIVIAL_PREFIXES) :
                /\ StartsWith(lowered, TRIVIAL_PREFIXES[i])
                /\ Boundary(lowered, Len(TRIVIAL_PREFIXES[i]) + 1)
    IN short /\ simple_pattern

decision(depth, confidence, signals) ==
    [py |-> "ReasoningDecision", depth |-> depth, confidence |-> confidence,
     signals |-> signals, controller_version |-> CONTROLLER_VERSION]

\* _clamp: float(value) fails for null and for a non-numeric string
clamp(value) ==
    IF value.t = "num"
    THEN LET r == Round2(value.v)
         IN IF r < 0 THEN 0 ELSE IF r > 1000 THEN 1000 ELSE r
    ELSE 500

\* o: the outcome of the depth-assessment call, as for the risk classifier.
\* A missing key of the parsed object is returned as None.
llm_assess_depth(o) ==
    IF o.kind = "json"
    THEN [depth |-> Get(o.body, "depth", "None"),
          confidence |-> Get(o.body, "confidence", Null),
          signals |-> Get(o.body, "signals", List({}))]
    ELSE <<>>

decide(query, client, o) ==
    IF is_trivial(query)
    THEN decision("NONE", 900, {"trivial_query"})
    ELSE LET lowered == Lower(query)
             s1 == IF AnyIn(lowered, RIGOROUS_TRIGGERS) THEN {"high_stakes_language"} ELSE {}
             s2 == IF AnyIn(lowered, STRUCTURED_TRIGGERS) THEN {"procedural_language"} ELSE {}
             llm_result == IF client THEN llm_assess_depth(o) ELSE <<>>
             depth0 == Get(llm_result, "depth", "LIGHT")
             confidence == Get(llm_result, "confidence", Num(500))
             llm_signals == Get(llm_result, "signals", List({}))
             signals == s1 \cup s2 \cup (IF llm_signals.t = "list" THEN llm_signals.v ELSE {})
             depth1 == IF "high_stakes_language" \in signals THEN "RIGOROUS" ELSE depth0
             depth2 == IF depth1 \notin DEPTHS THEN "LIGHT" ELSE depth1
         IN decision(depth2, clamp(confidence), signals)

(***************************************************************************)
(* intelligence.py : IntelligenceCore                                      *)
(***************************************************************************)
\* confidence >= 0.7 is needed for VERIFIED
VERIFIED_MIN_CONFIDENCE == 700

insufficient(gaps) ==
    [status |-> "INSUFFICIENT", content |-> <<>>, confidence |-> 0, gaps |-> gaps]

\* v: the outcome of the validation call: [kind |-> "raise"] (the call,
\* json.loads or float() raised) or [kind |-> "json", content |-> chars,
\* confidence |-> thousandths, gaps |-> List(..) or a non-list].
validate_facts(v) ==
    IF v.kind = "raise" THEN insufficient(<<"Fact validation failed">>)
    ELSE LET validated_content == Strip(v.content)
             gaps == IF v.gaps.t = "list" THEN v.gaps.v
                     ELSE <<"Invalid gaps format returned">>
             status == IF v.confidence >= VERIFIED_MIN_CONFIDENCE /\ gaps = <<>>
                          /\ validated_content # <<>>
                       THEN "VERIFIED" ELSE "INSUFFICIENT"
         IN [status |-> status, content |-> validated_content,
             confidence |-> Round2(v.confidence), gaps |-> gaps]

\* o.services: both API keys are configured; o.research: the sanitised text
\* found ("" when the search raised); o.extract: the extracted facts ("" when
\* the call raised); o.validate: see validate_facts; o.fault: an exception
\* reached the try block of verify.
verify(o) ==
    IF ~o.services THEN insufficient(<<"Verification services unavailable">>)
    ELSE IF o.fault
    THEN [status |-> "ERROR", content |-> <<>>, confidence |-> 0,
          gaps |-> <<"Verification process failed">>]
    ELSE IF o.research = <<>> THEN insufficient(<<"No relevant external data found">>)
    ELSE IF o.extract = <<>> THEN insufficient(<<"Facts could not be reliably extracted">>)
    ELSE validate_facts(o.validate)

(***************************************************************************)
(* astra_brain.py : AstraBrain                                             *)
(***************************************************************************)
\* confusion > 0.75 or technicality > 0.8 selects the ELI5 mode
ELI5_CONFUSION == 750
ELI5_TECHNICALITY == 800
\* similarity < 0.55 triggers the corrective regeneration
MIN_SIMILARITY == 550

\* The text chat substitutes for an empty answer; its apostrophe is the
\* right single quotation mark, U+2019.
EMPTY_ANSWER_TEXT == <<"I","U+2019","m"," ","u","n","a","b","l","e"," ","t","o"," ",
    "p","r","o","d","u","c","e"," ","a"," ","m","e","a","n","i","n","g","f","u","l"," ",
    "a","n","s","w","e","r"," ","a","t"," ","t","h","i","s"," ","t","i","m","e",".">>

REFUSAL_ERROR_TEXT == <<"V","e","r","i","f","i","c","a","t","i","o","n"," ","f","a","i","l","e","d","."," ","C","a","n","n","o","t"," ","a","n","s","w","e","r"," ","s","a","f","e","l","y",".">>
REFUSAL_INSUFFICIENT_TEXT == <<"N","o","t"," ","e","n","o","u","g","h"," ","v","e","r","i","f","i","e","d"," ","i","n","f","o","r","m","a","t","i","o","n"," ","t","o"," ","a","n","s","w","e","r"," ","s","a","f","e","l","y",".">>

\* The attributes of the Python objects that reach chat.
Attributes(obj) ==
    IF obj.py = "ReasoningDecision"
    THEN {"depth", "confidence", "signals", "controller_version"}
    ELSE {}
HasAttr(obj, a) == a \in Attributes(obj)

\* `not semantic_profile`: None or an empty dict
select_explanation_mode(profile) ==
    IF profile = NoVal \/ DOMAIN profile = {} THEN "NORMAL"
    ELSE LET confusion == Get(profile, "confusion", 0)
             technicality == Get(profile, "technicality", 0)
         IN IF confusion > ELI5_CONFUSION \/ technicality > ELI5_TECHNICALITY
            THEN "ELI5" ELSE "NORMAL"

\* The execution contract, named by its first instruction.
system_prompt(depth, mode) ==
    IF mode = "ELI5" THEN "Explain this in the simplest possible way."
    ELSE IF depth = "NONE" THEN "Provide a direct, concise factual answer. No explanation."
    ELSE IF depth = "LIGHT" THEN "Provide a short, clear explanation."
    ELSE IF depth = "STRUCTURED" THEN "Explain step by step."
    ELSE IF depth = "RIGOROUS" THEN "You are a senior professional expert."
    ELSE "Provide a clear and accurate answer."

RETRY_PROMPT == "Provide a simpler, more direct answer."

Dot(v1, v2) ==
    LET n == IF Len(v1) < Len(v2) THEN Len(v1) ELSE Len(v2)
        RECURSIVE sum(_)
        sum(i) == IF i > n THEN 0 ELSE v1[i] * v2[i] + sum(i + 1)
    IN sum(1)

\* _cosine_similarity(v1, v2) < thr/1000, for integer vectors:
\* dot / (|v1||v2| + 1e-8) < t  iff  dot <= 0  or  dot^2 <= t^2 |v1|^2 |v2|^2
similarity_below(v1, v2, thr) ==
    LET dot == Dot(v1, v2)
    IN dot <= 0 \/ (1000 * dot) * (1000 * dot) <= thr * thr * Dot(v1, v1) * Dot(v2, v2)

security_scrub(text) ==
    LET t1 == ReSub("email", text, SENSITIVE)
        t2 == ReSub("hex", t1, SENSITIVE)
    IN Strip(Replace(t2, STARS2, <<>>))

\* The envelope that takes every verification that took place as verified.
build_response_any_verification(answer, verif, rd) ==
    LET verified == verif # NoVal
    IN [answer |-> answer,
        status |-> IF verified THEN "VERIFIED" ELSE "CONDITIONAL",
        confidence |-> IF verified THEN "High" ELSE "Medium",
        reasoning_depth |-> rd.depth,
        assumptions |-> IF verified THEN <<"External data assumed correct">> ELSE <<>>,
        limits |-> IF verif # NoVal THEN Get(verif, "gaps", <<>>) ELSE <<>>,
        next_steps |-> <<>>]

\* verification is NoVal when no verification took place
build_response(answer, verif, rd) ==
    LET verified == verif # NoVal /\ Get(verif, "status", "") = "VERIFIED"
    IN [answer |-> answer,
        status |-> IF verified THEN "VERIFIED" ELSE "CONDITIONAL",
        confidence |-> IF verified THEN "High" ELSE "Medium",
        reasoning_depth |-> rd.depth,
        assumptions |-> IF verified THEN <<"External data assumed correct">> ELSE <<>>,
        limits |-> IF verif # NoVal THEN Get(verif, "gaps", <<>>) ELSE <<>>,
        next_steps |-> <<>>]

refusal_response(answer, reason, needed, why, rd) ==
    [answer |-> answer,
     status |-> "REFUSED",
     confidence |-> "Low",
     reasoning_depth |-> rd.depth,
     refusal |-> [reason |-> reason, needed |-> needed, why_it_matters |-> why],
     assumptions |-> <<>>,
     limits |-> needed,
     next_steps |-> needed]

(***************************************************************************)
(* output_system.py : OutputSystem                                         *)
(***************************************************************************)
HIGH_STAKES_TRIGGERS == <<
    <<"s","h","o","u","l","d">>,
    <<"d","e","c","i","d","e">>,
    <<"r","e","c","o","m","m","e","n","d">>,
    <<"r","i","s","k">>,
    <<"c","o","m","p","a","r","e">>,
    <<"l","e","g","a","l">>,
    <<"t","a","x">>,
    <<"f","i","n","a","n","c","e">>,
    <<"s","e","c","u","r","i","t","y">>,
    <<"p","r","o","d","u","c","t","i","o","n">> >>

\* The keyword parameters OutputSystem.__init__(self) accepts: none.
OUTPUT_SYSTEM_PARAMS == {}

\* OutputSystem(**kwargs) raises TypeError for an unexpected keyword argument
output_system_raises(kwargs) == kwargs \ OUTPUT_SYSTEM_PARAMS # {}

is_high_stakes(query) == AnyIn(Lower(query), HIGH_STAKES_TRIGGERS)

SelectSeq2(titles, shown) == SelectSeq(titles, LAMBDA t : t \in shown)

\* The titles of the sections of a refusal; the apostrophe of the third title
\* is U+2019, written {U+2019}.
render_refusal(refusal) ==
    SelectSeq2(<<"STATUS", "WHY", "WHAT{U+2019}S NEEDED", "WHY IT MATTERS", "METADATA">>,
        {"STATUS", "WHY", "METADATA"}
        \cup (IF Get(refusal, "needed", <<>>) # <<>> THEN {"WHAT{U+2019}S NEEDED"} ELSE {})
        \cup (IF Get(refusal, "why_it_matters", "") # "" THEN {"WHY IT MATTERS"} ELSE {}))

\* assemble showing LIMITS for every query with high-stakes wording, whether
\* or not the envelope has limits.
assemble_limits_by_query(response, query) ==
    IF Get(response, "status", "") = "REFUSED"
    THEN render_refusal(Get(response, "refusal", <<>>))
    ELSE SelectSeq2(<<"ANSWER", "TRUST", "VALID IF", "WHY THIS HOLDS", "LIMITS",
                      "NEXT STEP", "METADATA">>,
        {"ANSWER", "TRUST", "METADATA"}
        \cup (IF Get(response, "assumptions", <<>>) # <<>> THEN {"VALID IF"} ELSE {})
        \cup (IF Get(response, "reasons", <<>>) # <<>> THEN {"WHY THIS HOLDS"} ELSE {})
        \cup (IF is_high_stakes(query) THEN {"LIMITS"} ELSE {})
        \cup (IF Get(response, "next_steps", <<>>) # <<>> THEN {"NEXT STEP"} ELSE {}))

\* The sections of the rendered response, in order.
assemble(response, query) ==
    IF Get(response, "status", "") = "REFUSED"
    THEN render_refusal(Get(response, "refusal", <<>>))
    ELSE SelectSeq2(<<"ANSWER", "TRUST", "VALID IF", "WHY THIS HOLDS", "LIMITS",
                      "NEXT STEP", "METADATA">>,
        {"ANSWER", "TRUST", "METADATA"}
        \cup (IF Get(response, "assumptions", <<>>) # <<>> THEN {"VALID IF"} ELSE {})
        \cup (IF Get(response, "reasons", <<>>) # <<>> THEN {"WHY THIS HOLDS"} ELSE {})
        \cup (IF Get(response, "limits", <<>>) # <<>> /\ is_high_stakes(query)
              THEN {"LIMITS"} ELSE {})
        \cup (IF Get(response, "next_steps", <<>>) # <<>> THEN {"NEXT STEP"} ELSE {}))

(***************************************************************************)
(* Inputs: the requests and the replies of the external services           *)
(***************************************************************************)
Q_deploy == <<"s","h","o","u","l","d"," ","I"," ","d","e","p","l","o","y"," ","t","h","i","s"," ","t","o"," ","p","r","o","d","u","c","t","i","o","n">>
Q_dns == <<"w","h","a","t"," ","i","s"," ","d","n","s">>
Q_tax == <<"W","h","a","t"," ","i","s"," ","t","a","x">>
Q_hello == <<"h","e","l","l","o"," ","t","h","e","r","e">>
Q_explain == <<"e","x","p","l","a","i","n"," ","h","o","w"," ","d","n","s"," ","w","o","r","k","s">>
Q_flawless == <<"i","s"," ","t","h","i","s"," ","f","l","a","w","l","e","s","s">>
Q_mail == <<"m","a","i","l"," ","t","a","x","@","x",".","i","o">>
Q_ignore == <<"I","g","n","o","r","e"," "," ","p","r","e","v","i","o","u","s"," ","i","n","s","t","r","u","c","t","i","o","n","s">>
Q_blank == <<" "," ">>
Q_defined == <<"d","e","f","i","n","e","d"," ","t","e","r","m","s">>
Q_bold == <<"*","*","s","h","o","u","l","d","*","*"," ","w","e"," ","g","o">>
Q_legal == <<"I","s"," ","t","h","i","s"," ","L","E","G","A","L">>
Q_masked == <<"a","u","d","i","t"," ","[","S","E","N","S","I","T","I","V","E","]"," ","l","o","g","s">>

\* The user queries of the requests.
Queries == {Q_deploy, Q_tax, Q_hello, Q_mail, Q_ignore, Q_blank, Q_bold}

\* The texts handed directly to the classifier and to the depth controller.
Texts == {Q_deploy, Q_dns, Q_tax, Q_hello, Q_explain, Q_flawless, Q_defined,
          Q_legal, Q_masked}

\* Replies of the encoder's security classifier.
EncoderReplies ==
    {[kind |-> "raise"]}
    \cup {[kind |-> "text", content |-> c] :
            c \in {<<"s","a","f","e">>, <<"M","A","L","I","C","I","O","U","S">>,
                   <<"m","a","y","b","e">>}}

\* Replies of the risk classifier.
ClassifierRoutes == {LOW_STAKES, INFORMATIONAL, DECISION_SUPPORT,
                     ACCOUNTABILITY_REQUIRED, "URGENT"}
ClassifierConfidences == {Num(104), Num(396), Num(1500), Num(-200), NonNum}
ClassifierTags == {"decision_request", "regulatory_context"}
ClassifierSignals == {List(S) : S \in SUBSET ClassifierTags} \cup {NullList}

\* d restricted to the keys K: the other keys are missing from the dict
Restrict(d, K) == [k \in K |-> d[k]]

ClassifierBodies ==
    {Restrict([route |-> r, confidence |-> c, signals |-> g], K) :
        r \in ClassifierRoutes, c \in ClassifierConfidences, g \in ClassifierSignals,
        K \in SUBSET {"route", "confidence", "signals"}}

ClassifierOutcomes ==
    {[kind |-> "raise"], [kind |-> "json_not_object"]}
    \cup {[kind |-> "json", body |-> b] : b \in ClassifierBodies}

\* Replies of the depth-assessment call of the reasoning controller.
DepthBodies ==
    {Restrict([depth |-> d, confidence |-> c, signals |-> g], K) :
        d \in {"NONE", "EXTREME"}, c \in {Num(1704)},
        g \in {List({"high_stakes_language"})},
        K \in SUBSET {"depth", "confidence", "signals"}}

DepthOutcomes ==
    {[kind |-> "raise"], [kind |-> "json_not_object"]}
    \cup {[kind |-> "json", body |-> b] : b \in DepthBodies}

\* Outcomes of the services behind IntelligenceCore.verify.
F_facts == <<" ","f","a","c","t","s"," ">>
ValidateOutcomes ==
    {[kind |-> "raise"]}
    \cup {[kind |-> "json", content |-> c, confidence |-> k, gaps |-> g] :
            c \in {<<>>, F_facts}, k \in {500, 700},
            g \in {List(<<>>), List(<<"source is outdated">>), Null}}
VerifyOutcomes ==
    {[services |-> sv, fault |-> f, research |-> r, extract |-> e, validate |-> v] :
        sv \in BOOLEAN, f \in BOOLEAN, r \in {<<>>, F_facts}, e \in {<<>>, F_facts},
        v \in ValidateOutcomes}
\* The results verify can return.
VerifyResults == {verify(o) : o \in VerifyOutcomes}

\* Replies of the text-generation service.
G_yes == <<"y","e","s">>
G_pad == <<" ","o","k"," ">>
G_stars == <<"*","*">>
G_mail == <<"s","e","e"," ","a","@","b",".","c","o">>
GenOutcomes ==
    {[kind |-> "raise"]}
    \cup {[kind |-> "text", content |-> c] :
            c \in {G_yes, G_pad, G_stars, G_mail,
                   <<"a","@","b",".","*","*","c","o">>,
                   <<"1",".","2",".","3",".","4">>}}

\* Replies of the embedding service.
EmbedVectors == {<<1, 0>>, <<0, 1>>, <<2, 3>>}
EmbedOutcomes ==
    {[kind |-> "raise"]} \cup {[kind |-> "vector", v |-> v] : v \in EmbedVectors}

\* Semantic profiles handed to chat: None, an empty dict, or scores.
Profiles ==
    {NoVal, <<>>}
    \cup {[confusion |-> c, decision_intent |-> d, technicality |-> t, novelty |-> 500] :
            c \in {300, 751}, d \in {900}, t \in {100, 801}}

\* Situation declarations interpret hands to chat: a row of the policy table
\* without verification and a row with it (chat reads the two gates only).
ChatSituations ==
    {interpret([route |-> r]) : r \in {INFORMATIONAL, ACCOUNTABILITY_REQUIRED}}

\* main.py: QueryRequest defaults
REQUEST_USER == "user_1"
REQUEST_PROJECT == "general"
ChatIds == <<"chat_1", "chat_2", "chat_3", "chat_4", "chat_5">>

(***************************************************************************)
(* main.py : handle_request, step by step                                  *)
(***************************************************************************)
Fault(error) == [kind |-> "fault", status |-> error, sections |-> <<>>]
Rendered(response, query) ==
    [kind |-> "response", status |-> response.status,
     sections |-> assemble(response, query)]

REQUEST_BLOCKED_TEXT == <<"R","e","q","u","e","s","t"," ","b","l","o","c","k","e","d",".">>
\* f"System error: {str(e)}"
SYSTEM_ERROR_TEXT(message) ==
    <<"S","y","s","t","e","m"," ","e","r","r","o","r",":"," ">> \o message

plain_response(answer, status) ==
    [answer |-> answer, status |-> status, assumptions |-> <<>>, limits |-> <<>>,
     next_steps |-> <<>>]

\* 1. SECURITY GATE
SecurityGate ==
    /\ pc = "start"
    /\ \E reply \in EncoderReplies :
        LET security == process_input(user_query, reply)
        IN IF security.status = "BLOCK"
           THEN /\ clean_query' = clean_query
                /\ IF output_system_raises({"audience"})
                   THEN pc' = "except" /\ outcome' = outcome
                   ELSE /\ pc' = "done"
                        /\ outcome' = Rendered(plain_response(REQUEST_BLOCKED_TEXT, "BLOCKED"),
                                               user_query)
           ELSE /\ clean_query' = security.content
                /\ pc' = "memory"
                /\ outcome' = outcome
    /\ UNCHANGED <<user_query, llm, intent_signal, situation, depth_llm, raw_decision,
                   reasoning_decision, semantic_profile, controller_client,
                   memory_client, chats, chat_id, verification, context_text,
                   raw_answer, final_answer, brain_response, calls>>

\* memory.py : create_or_get_chat
MatchingChats(table, user_id, project_id) ==
    SelectSeq(table, LAMBDA row : row.user_id = user_id /\ row.title = project_id)

\* 2. MEMORY CONTEXT.  create_or_get_chat sends a select and, when the select
\* finds no row, an insert; get_history sends one more select.  Each is a
\* blocking request to the database, and the workers of a deployment run
\* their requests between them.  Without a client no request is sent.
\* The select of create_or_get_chat:
MemoryContext ==
    /\ pc = "memory"
    /\ IF ~memory_client
       THEN chat_id' = "local_chat_id" /\ pc' = "predict"
       ELSE \E db \in {"ok", "raise"} :
            IF db = "raise"
            THEN chat_id' = chat_id /\ pc' = "except"
            ELSE LET found == MatchingChats(chats, REQUEST_USER, REQUEST_PROJECT)
                 IN IF found # <<>>
                    THEN chat_id' = found[1].id /\ pc' = "history"
                    ELSE chat_id' = chat_id /\ pc' = "insert"
    /\ UNCHANGED <<user_query, clean_query, llm, intent_signal, situation, depth_llm,
                   raw_decision, reasoning_decision, semantic_profile, controller_client,
                   memory_client, chats, verification, context_text, raw_answer, final_answer,
                   brain_response, calls, outcome>>

\* The insert of create_or_get_chat:
MemoryInsert ==
    /\ pc = "insert"
    /\ \E db \in {"ok", "raise"} :
        IF db = "raise"
        THEN chat_id' = chat_id /\ chats' = chats /\ pc' = "except"
        ELSE LET id == ChatIds[Len(chats) + 1]
             IN /\ chats' = Append(chats, [id |-> id, user_id |-> REQUEST_USER,
                                           title |-> REQUEST_PROJECT])
                /\ chat_id' = id
                /\ pc' = "history"
    /\ UNCHANGED <<user_query, clean_query, llm, intent_signal, situation, depth_llm,
                   raw_decision, reasoning_decision, semantic_profile, controller_client,
                   memory_client, verification, context_text, raw_answer, final_answer,
                   brain_response, calls, outcome>>

\* get_history reads the messages of the chat, catches every failure and
\* returns a list that chat does not read.
GetHistory ==
    /\ pc = "history"
    /\ pc' = "predict"
    /\ UNCHANGED <<user_query, clean_query, llm, intent_signal, situation, depth_llm,
                   raw_decision, reasoning_decision, semantic_profile, controller_client,
                   memory_client, chats, chat_id, verification, context_text, raw_answer, final_answer,
                   brain_response, calls, outcome>>

\* The insert of create_or_get_chat by a request of another worker for the
\* same (user_id, project_id), whose select found no row; it runs at any
\* point of this request's step 2.
MaxChats == 2
OtherWorkerInsert ==
    /\ pc \in {"memory", "insert", "history"}
    /\ memory_client
    /\ Len(chats) < MaxChats
    /\ chats' = Append(chats, [id |-> ChatIds[Len(chats) + 1], user_id |-> REQUEST_USER,
                              title |-> REQUEST_PROJECT])
    /\ UNCHANGED <<pc, chat_id>>
    /\ UNCHANGED <<user_query, clean_query, llm, intent_signal, situation, depth_llm,
                   raw_decision, reasoning_decision, semantic_profile, controller_client,
                   memory_client, verification, context_text, raw_answer, final_answer,
                   brain_response, calls, outcome>>

\* 3. RISK CLASSIFICATION
Predict ==
    /\ pc = "predict"
    /\ \E o \in ClassifierOutcomes :
        /\ llm' = o
        /\ IF predict_raises(o)
           THEN pc' = "except" /\ intent_signal' = intent_signal
           ELSE pc' = "interpret" /\ intent_signal' = predict(clean_query, o)
    /\ UNCHANGED <<user_query, clean_query, situation, depth_llm, raw_decision,
                   reasoning_decision, semantic_profile, controller_client,
                   memory_client, chats, chat_id, verification, context_text,
                   raw_answer, final_answer, brain_response, calls, outcome>>

\* 4. POLICY INTERPRETATION
Interpret ==
    /\ pc = "interpret"
    /\ situation' = interpret(intent_signal)
    /\ pc' = "decide"
    /\ UNCHANGED <<user_query, clean_query, llm, intent_signal, depth_llm, raw_decision,
                   reasoning_decision, semantic_profile, controller_client,
                   memory_client, chats, chat_id, verification, context_text,
                   raw_answer, final_answer, brain_response, calls, outcome>>

\* The "anti-crash" converter of step 5.
anti_crash_convert(raw) ==
    IF HasAttr(raw, "model_dump") THEN [raw EXCEPT !.py = "dict"]
    ELSE IF HasAttr(raw, "dict") THEN [raw EXCEPT !.py = "dict"]
    ELSE IF raw.py = "dict" THEN raw
    ELSE [py |-> "dict", depth |-> "standard", thinking |-> "practical"]

\* 5. REASONING DEPTH
ReasoningDepth ==
    /\ pc = "decide"
    /\ \E o \in (IF controller_client THEN DepthOutcomes ELSE {NoVal}) :
        /\ depth_llm' = o
        /\ raw_decision' = decide(clean_query, controller_client, o)
        /\ reasoning_decision' = anti_crash_convert(raw_decision')
    /\ pc' = "chat"
    /\ UNCHANGED <<user_query, clean_query, llm, intent_signal, situation,
                   semantic_profile, controller_client, memory_client, chats, chat_id,
                   verification, context_text, raw_answer, final_answer,
                   brain_response, calls, outcome>>

(***************************************************************************)
(* astra_brain.py : AstraBrain.chat, step by step.  An exception that      *)
(* leaves chat moves the request to the except clause of handle_request.   *)
(***************************************************************************)
Call(svc, arg) == [svc |-> svc, arg |-> arg]

\* 6.1 VERIFICATION (POLICY-GATED)
ChatVerify ==
    /\ pc = "chat"
    /\ IF situation.verification_required
       THEN \E v \in VerifyResults :
            /\ verification' = v
            /\ calls' = Append(calls, Call("verify", ""))
            /\ IF v.status \in {"ERROR", "INSUFFICIENT"} /\ situation.refusal_allowed
               THEN /\ context_text' = context_text
                    /\ IF HasAttr(reasoning_decision, "depth")
                       THEN /\ pc' = "chat_returned"
                            /\ brain_response' =
                                 IF v.status = "ERROR"
                                 THEN refusal_response(REFUSAL_ERROR_TEXT, "Verification error",
                                        Get(v, "gaps", <<>>),
                                        "This situation requires verified correctness.",
                                        reasoning_decision)
                                 ELSE refusal_response(REFUSAL_INSUFFICIENT_TEXT,
                                        "Insufficient verification", Get(v, "gaps", <<>>),
                                        "This decision requires verifiable accuracy.",
                                        reasoning_decision)
                       ELSE pc' = "except" /\ brain_response' = brain_response
               ELSE /\ context_text' = Get(v, "content", <<>>)
                    /\ pc' = "reason"
                    /\ brain_response' = brain_response
       ELSE /\ verification' = NoVal
            /\ context_text' = <<>>
            /\ calls' = calls
            /\ pc' = "reason"
            /\ brain_response' = brain_response
    /\ UNCHANGED <<user_query, clean_query, llm, intent_signal, situation, depth_llm,
                   raw_decision, reasoning_decision, semantic_profile, controller_client,
                   memory_client, chats, chat_id, raw_answer, final_answer, outcome>>

\* 6.2 EXECUTE REASONING: one generation under the prompt for depth and mode
ChatReason ==
    /\ pc = "reason"
    /\ IF ~HasAttr(reasoning_decision, "depth")
       THEN pc' = "except" /\ calls' = calls /\ raw_answer' = raw_answer
       ELSE \E g \in GenOutcomes :
            LET mode == select_explanation_mode(semantic_profile)
                system_role == system_prompt(reasoning_decision.depth, mode)
            IN /\ calls' = Append(calls, Call("generate", system_role))
               /\ IF g.kind = "raise"
                  THEN pc' = "except" /\ raw_answer' = raw_answer
                  ELSE pc' = "self_check" /\ raw_answer' = Strip(g.content)
    /\ UNCHANGED <<user_query, clean_query, llm, intent_signal, situation, depth_llm,
                   raw_decision, reasoning_decision, semantic_profile, controller_client,
                   memory_client, chats, chat_id, verification, context_text,
                   final_answer, brain_response, outcome>>

\* The drift check with a second regeneration request.
ChatSelfCheck_retry_again ==
    /\ pc = "self_check"
    /\ \E q \in EmbedOutcomes :
        IF q.kind = "raise"
        THEN /\ calls' = Append(calls, Call("embed", "question") @@ [reply |-> q])
             /\ final_answer' = raw_answer
        ELSE \E a \in EmbedOutcomes :
             IF a.kind = "raise"
             THEN /\ calls' = calls \o <<Call("embed", "question") @@ [reply |-> q],
                                       Call("embed", "answer") @@ [reply |-> a]>>
                  /\ final_answer' = raw_answer
             ELSE IF similarity_below(q.v, a.v, MIN_SIMILARITY)
             THEN \E g \in GenOutcomes :
                  /\ calls' = calls \o <<Call("embed", "question") @@ [reply |-> q],
                                       Call("embed", "answer") @@ [reply |-> a],
                                       Call("generate", RETRY_PROMPT) @@ [reply |-> g], (Call("generate", RETRY_PROMPT) @@ [reply |-> g])>>
                  /\ final_answer' = IF g.kind = "raise" THEN raw_answer
                                     ELSE Strip(g.content)
             ELSE /\ calls' = calls \o <<Call("embed", "question") @@ [reply |-> q],
                                       Call("embed", "answer") @@ [reply |-> a]>>
                  /\ final_answer' = raw_answer
    /\ pc' = "respond"
    /\ UNCHANGED <<user_query, clean_query, llm, intent_signal, situation, depth_llm,
                   raw_decision, reasoning_decision, semantic_profile, controller_client,
                   memory_client, chats, chat_id, verification, context_text,
                   raw_answer, brain_response, outcome>>

\* The drift check with the threshold 0.6.
ChatSelfCheck_threshold_600 ==
    /\ pc = "self_check"
    /\ \E q \in EmbedOutcomes :
        IF q.kind = "raise"
        THEN /\ calls' = Append(calls, Call("embed", "question") @@ [reply |-> q])
             /\ final_answer' = raw_answer
        ELSE \E a \in EmbedOutcomes :
             IF a.kind = "raise"
             THEN /\ calls' = calls \o <<Call("embed", "question") @@ [reply |-> q],
                                       Call("embed", "answer") @@ [reply |-> a]>>
                  /\ final_answer' = raw_answer
             ELSE IF similarity_below(q.v, a.v, 600)
             THEN \E g \in GenOutcomes :
                  /\ calls' = calls \o <<Call("embed", "question") @@ [reply |-> q],
                                       Call("embed", "answer") @@ [reply |-> a],
                                       Call("generate", RETRY_PROMPT) @@ [reply |-> g]>>
                  /\ final_answer' = IF g.kind = "raise" THEN raw_answer
                                     ELSE Strip(g.content)
             ELSE /\ calls' = calls \o <<Call("embed", "question") @@ [reply |-> q],
                                       Call("embed", "answer") @@ [reply |-> a]>>
                  /\ final_answer' = raw_answer
    /\ pc' = "respond"
    /\ UNCHANGED <<user_query, clean_query, llm, intent_signal, situation, depth_llm,
                   raw_decision, reasoning_decision, semantic_profile, controller_client,
                   memory_client, chats, chat_id, verification, context_text,
                   raw_answer, brain_response, outcome>>

\* The drift check without its except clause: a failed embedding leaves chat.
ChatSelfCheck_embed_propagates ==
    /\ pc = "self_check"
    /\ \E q \in EmbedOutcomes :
        IF q.kind = "raise"
        THEN /\ calls' = Append(calls, Call("embed", "question") @@ [reply |-> q])
             /\ final_answer' = final_answer
             /\ pc' = "except"
        ELSE \E a \in EmbedOutcomes :
             IF a.kind = "raise"
             THEN /\ calls' = calls \o <<Call("embed", "question") @@ [reply |-> q],
                                       Call("embed", "answer") @@ [reply |-> a]>>
                  /\ final_answer' = final_answer
                  /\ pc' = "except"
             ELSE IF similarity_below(q.v, a.v, MIN_SIMILARITY)
             THEN \E g \in GenOutcomes :
                  /\ calls' = calls \o <<Call("embed", "question") @@ [reply |-> q],
                                       Call("embed", "answer") @@ [reply |-> a],
                                       Call("generate", RETRY_PROMPT) @@ [reply |-> g]>>
                  /\ final_answer' = IF g.kind = "raise" THEN raw_answer
                                     ELSE Strip(g.content)
                  /\ pc' = "respond"
             ELSE /\ calls' = calls \o <<Call("embed", "question") @@ [reply |-> q],
                                       Call("embed", "answer") @@ [reply |-> a]>>
                  /\ final_answer' = raw_answer
                  /\ pc' = "respond"
    /\ UNCHANGED <<user_query, clean_query, llm, intent_signal, situation, depth_llm,
                   raw_decision, reasoning_decision, semantic_profile, controller_client,
                   memory_client, chats, chat_id, verification, context_text,
                   raw_answer, brain_response, outcome>>

\* 6.3 SELF-CHECK (ANTI-DRIFT): every exception inside it returns the answer.
\* The requests of the drift check are recorded with the reply they got.
ChatSelfCheck ==
    /\ pc = "self_check"
    /\ \E q \in EmbedOutcomes :
        IF q.kind = "raise"
        THEN /\ calls' = Append(calls, Call("embed", "question") @@ [reply |-> q])
             /\ final_answer' = raw_answer
        ELSE \E a \in EmbedOutcomes :
             IF a.kind = "raise"
             THEN /\ calls' = calls \o <<Call("embed", "question") @@ [reply |-> q],
                                       Call("embed", "answer") @@ [reply |-> a]>>
                  /\ final_answer' = raw_answer
             ELSE IF similarity_below(q.v, a.v, MIN_SIMILARITY)
             THEN \E g \in GenOutcomes :
                  /\ calls' = calls \o <<Call("embed", "question") @@ [reply |-> q],
                                       Call("embed", "answer") @@ [reply |-> a],
                                       Call("generate", RETRY_PROMPT) @@ [reply |-> g]>>
                  /\ final_answer' = IF g.kind = "raise" THEN raw_answer
                                     ELSE Strip(g.content)
             ELSE /\ calls' = calls \o <<Call("embed", "question") @@ [reply |-> q],
                                       Call("embed", "answer") @@ [reply |-> a]>>
                  /\ final_answer' = raw_answer
    /\ pc' = "respond"
    /\ UNCHANGED <<user_query, clean_query, llm, intent_signal, situation, depth_llm,
                   raw_decision, reasoning_decision, semantic_profile, controller_client,
                   memory_client, chats, chat_id, verification, context_text,
                   raw_answer, brain_response, outcome>>

\* 6.4 redaction, the substitute for an empty answer, RESPONSE BUILDING
ChatRespond ==
    /\ pc = "respond"
    /\ LET scrubbed == security_scrub(final_answer)
           answer == IF scrubbed = <<>> THEN EMPTY_ANSWER_TEXT ELSE scrubbed
       IN /\ final_answer' = answer
          /\ brain_response' = build_response(answer, verification, reasoning_decision)
    /\ pc' = "chat_returned"
    /\ UNCHANGED <<user_query, clean_query, llm, intent_signal, situation, depth_llm,
                   raw_decision, reasoning_decision, semantic_profile, controller_client,
                   memory_client, chats, chat_id, verification, context_text,
                   raw_answer, calls, outcome>>

\* The except clause of handle_request.  It constructs
\* OutputSystem(audience="CONSUMER") and then builds the answer from the text
\* of the exception that reached the clause, a text the failing call chose.
HandleException ==
    /\ pc = "except"
    /\ \E message \in {<<>>, <<"b","o","o","m">>} :
        outcome' = IF output_system_raises({"audience"})
                   THEN Fault("TypeError")
                   ELSE Rendered(plain_response(SYSTEM_ERROR_TEXT(message), "ERROR"),
                                 user_query)
    /\ pc' = "done"
    /\ UNCHANGED <<user_query, clean_query, llm, intent_signal, situation, depth_llm,
                   raw_decision, reasoning_decision, semantic_profile, controller_client,
                   memory_client, chats, chat_id, verification, context_text,
                   raw_answer, final_answer, brain_response, calls>>

(***************************************************************************)
(* Specifications                                                          *)
(***************************************************************************)
Blank ==
    /\ llm = NoVal /\ intent_signal = NoVal /\ situation = NoVal /\ depth_llm = NoVal
    /\ raw_decision = NoVal /\ reasoning_decision = NoVal
    /\ verification = NoVal /\ context_text = <<>> /\ raw_answer = <<>>
    /\ final_answer = <<>> /\ brain_response = NoVal /\ calls = <<>>
    /\ outcome = NoVal /\ chat_id = ""

\* One request through handle_request.  The process only starts with
\* GROQ_API_KEY set (model_loader.py), so the controller has its client.
Init ==
    /\ pc = "start"
    /\ user_query \in Queries
    /\ clean_query = <<>>
    /\ semantic_profile = NoVal
    /\ controller_client = TRUE
    /\ memory_client \in BOOLEAN
    /\ chats \in {<<>>, <<[id |-> "chat_1", user_id |-> REQUEST_USER,
                          title |-> REQUEST_PROJECT]>>}
    /\ Blank

\* chat never returns to handle_request (the decision it receives is the dict of
\* the anti-crash converter, which has no attribute depth), so the steps after
\* the call (7. memory persistence, 8. output rendering) are never reached
\* and the self-check and the response building of chat only run in SpecChat.
Next ==
    \/ SecurityGate
    \/ MemoryContext
    \/ MemoryInsert
    \/ GetHistory
    \/ OtherWorkerInsert
    \/ Predict
    \/ Interpret
    \/ ReasoningDepth
    \/ ChatVerify
    \/ ChatReason
    \/ HandleException

Spec == Init /\ [][Next]_vars

\* interpret on its own: every predictor output, with each key present or not.
RiskSignals ==
    {Restrict([route |-> r, confidence |-> c, signals |-> g,
               version |-> PREDICTOR_VERSION], K \cup {"version"}) :
        r \in ClassifierRoutes, c \in {104, 399, 400, 900},
        g \in SUBSET {"decision_request", "regulatory_context", "user_accountability"},
        K \in SUBSET {"route", "confidence", "signals"}}

InitInterpret ==
    /\ pc = "interpret"
    /\ user_query = <<>> /\ clean_query = <<>>
    /\ semantic_profile = NoVal /\ controller_client = TRUE
    /\ memory_client = FALSE /\ chats = <<>>
    /\ llm = NoVal /\ intent_signal \in RiskSignals /\ situation = NoVal
    /\ depth_llm = NoVal /\ raw_decision = NoVal /\ reasoning_decision = NoVal
    /\ verification = NoVal /\ context_text = <<>> /\ raw_answer = <<>>
    /\ final_answer = <<>> /\ brain_response = NoVal /\ calls = <<>>
    /\ outcome = NoVal /\ chat_id = ""

NextInterpret == Interpret

SpecInterpret == InitInterpret /\ [][NextInterpret]_vars

\* predict followed by interpret, on every text and classifier outcome.
InitClassify ==
    /\ pc = "predict"
    /\ clean_query \in Texts /\ user_query = clean_query
    /\ semantic_profile = NoVal /\ controller_client = TRUE
    /\ memory_client = FALSE /\ chats = <<>>
    /\ Blank

NextClassify == Predict \/ Interpret

SpecClassify == InitClassify /\ [][NextClassify]_vars

\* decide on its own, with and without the controller's client.
InitDecide ==
    /\ pc = "decide"
    /\ clean_query \in Texts /\ user_query = clean_query
    /\ semantic_profile \in Profiles /\ controller_client \in BOOLEAN
    /\ memory_client = FALSE /\ chats = <<>>
    /\ Blank

NextDecide == ReasoningDepth

SpecDecide == InitDecide /\ [][NextDecide]_vars

\* chat on its own, called with a decision of the controller for the query,
\* as it is or as the dict that handle_request makes of it.
ChatDecisions(query) ==
    LET decided == {decide(query, TRUE, o) : o \in DepthOutcomes}
                   \cup {decide(query, FALSE, NoVal)}
    IN decided \cup {anti_crash_convert(d) : d \in decided}

\* chat on its own.  Its gate is specified for a policy that requires
\* verification and does not allow refusal; no row of SITUATION_RULES is such
\* a policy, so beside the situations interpret returns chat is handed that
\* SituationDecision directly.
InitChat ==
    /\ pc = "chat"
    /\ clean_query \in {Q_deploy, Q_hello} /\ user_query = clean_query
    /\ situation \in ChatSituations
                     \cup {[interpret([route |-> ACCOUNTABILITY_REQUIRED])
                               EXCEPT !.refusal_allowed = FALSE]}
    /\ reasoning_decision \in ChatDecisions(clean_query)
    /\ raw_decision = reasoning_decision
    /\ semantic_profile \in Profiles /\ controller_client = TRUE
    /\ memory_client = FALSE /\ chats = <<>>
    /\ llm = NoVal /\ intent_signal = NoVal /\ depth_llm = NoVal
    /\ verification = NoVal /\ context_text = <<>> /\ raw_answer = <<>>
    /\ final_answer = <<>> /\ brain_response = NoVal /\ calls = <<>>
    /\ outcome = NoVal /\ chat_id = ""

NextChat == ChatVerify \/ ChatReason \/ ChatSelfCheck \/ ChatRespond

SpecChat == InitChat /\ [][NextChat]_vars

\* assemble as a function of an envelope and a query text:
\*     OutputSystem().assemble(brain.chat(q, [], situation, decision), q)
\* with the two methods called directly, for the situations interpret returns
\* and a ReasoningDecision object.  This is not a run of handle_request, which
\* never calls assemble: its step 6 raises on the converter's dict, its step 8
\* would raise at reasoning_decision.get and at OutputSystem(audience=...),
\* and it ends in the fault of HandleException (see Spec).
Assemble ==
    /\ pc = "chat_returned"
    /\ outcome' = Rendered(brain_response, user_query)
    /\ pc' = "done"
    /\ UNCHANGED <<user_query, clean_query, llm, intent_signal, situation, depth_llm,
                   raw_decision, reasoning_decision, semantic_profile, controller_client,
                   memory_client, chats, chat_id, verification, context_text,
                   raw_answer, final_answer, brain_response, calls>>

InitAssemble == InitChat /\ situation \in ChatSituations

SpecAssemble == InitAssemble /\ [][NextChat \/ Assemble]_vars

\* create_or_get_chat called by concurrent requests of independent workers
\* for the same (user_id, project_id).  In this specification pc and chat_id
\* hold one value per request.  The select and the insert are two requests
\* to the database, and other requests may run between them.
SelectChat(r) ==
    /\ pc[r] = "select"
    /\ IF ~memory_client
       THEN /\ chat_id' = [chat_id EXCEPT ![r] = "local_chat_id"]
            /\ pc' = [pc EXCEPT ![r] = "returned"]
       ELSE \E db \in {"ok", "raise"} :
            IF db = "raise"
            THEN chat_id' = chat_id /\ pc' = [pc EXCEPT ![r] = "raised"]
            ELSE LET found == MatchingChats(chats, REQUEST_USER, REQUEST_PROJECT)
                 IN IF found # <<>>
                    THEN /\ chat_id' = [chat_id EXCEPT ![r] = found[1].id]
                         /\ pc' = [pc EXCEPT ![r] = "returned"]
                    ELSE chat_id' = chat_id /\ pc' = [pc EXCEPT ![r] = "insert"]
    /\ UNCHANGED <<user_query, clean_query, llm, intent_signal, situation, depth_llm,
                   raw_decision, reasoning_decision, semantic_profile, controller_client,
                   memory_client, chats, verification, context_text, raw_answer,
                   final_answer, brain_response, calls, outcome>>

InsertChat(r) ==
    /\ pc[r] = "insert"
    /\ \E db \in {"ok", "raise"} :
        IF db = "raise"
        THEN chat_id' = chat_id /\ chats' = chats /\ pc' = [pc EXCEPT ![r] = "raised"]
        ELSE LET id == ChatIds[Len(chats) + 1]
             IN /\ chats' = Append(chats, [id |-> id, user_id |-> REQUEST_USER,
                                           title |-> REQUEST_PROJECT])
                /\ chat_id' = [chat_id EXCEPT ![r] = id]
                /\ pc' = [pc EXCEPT ![r] = "returned"]
    /\ UNCHANGED <<user_query, clean_query, llm, intent_signal, situation, depth_llm,
                   raw_decision, reasoning_decision, semantic_profile, controller_client,
                   memory_client, verification, context_text, raw_answer,
                   final_answer, brain_response, calls, outcome>>

InitSessions ==
    /\ pc = [r \in {"r1", "r2", "r3"} |-> "select"]
    /\ chat_id = [r \in {"r1", "r2", "r3"} |-> ""]
    /\ memory_client \in BOOLEAN
    /\ chats \in {<<>>,
                  <<[id |-> "chat_1", user_id |-> "user_2", title |-> REQUEST_PROJECT]>>,
                  <<[id |-> "chat_1", user_id |-> REQUEST_USER, title |-> REQUEST_PROJECT]>>}
    /\ user_query = <<>> /\ clean_query = <<>>
    /\ semantic_profile = NoVal /\ controller_client = TRUE
    /\ llm = NoVal /\ intent_signal = NoVal /\ situation = NoVal /\ depth_llm = NoVal
    /\ raw_decision = NoVal /\ reasoning_decision = NoVal
    /\ verification = NoVal /\ context_text = <<>> /\ raw_answer = <<>>
    /\ final_answer = <<>> /\ brain_response = NoVal /\ calls = <<>>
    /\ outcome = NoVal

SpecSessions ==
    InitSessions /\ [][\E r \in DOMAIN pc : SelectChat(r) \/ InsertChat(r)]_vars

(***************************************************************************)
(* Properties                                                              *)
(***************************************************************************)
CanonicalRoutes == {LOW_STAKES, INFORMATIONAL, DECISION_SUPPORT, ACCOUNTABILITY_REQUIRED}
EscalatingSignals == {"regulatory_context", "user_accountability"}
HasKeyword == contains_high_risk_keywords(Lower(clean_query))
Classified == pc \in {"interpret", "decide"}

\* C1 -- Heuristic floor.  For a text that contains a high-risk keyword,
\* whenever predict returns, the route is ACCOUNTABILITY_REQUIRED, whatever
\* route the classifier returned; and when the external call failed predict
\* does return, with that route.
C1_HeuristicFloor ==
    (llm # NoVal /\ HasKeyword) =>
        /\ (llm.kind = "raise" => Classified)
        /\ (Classified => intent_signal.route = ACCOUNTABILITY_REQUIRED)

C1_Witness_LowStakesEscalated ==
    /\ Classified /\ HasKeyword
    /\ llm.kind = "json"
    /\ Get(llm.body, "route", "") = LOW_STAKES
    /\ intent_signal.route = ACCOUNTABILITY_REQUIRED

\* C2 -- Monotonic escalation.  A RiskSignal whose signals include
\* regulatory_context or user_accountability is interpreted as situation
\* ACCOUNTABILITY_REQUIRED, for every route (canonical, unknown or missing)
\* and every confidence.
C2_MonotonicEscalation ==
    (pc = "decide" /\ Get(intent_signal, "signals", {}) \cap EscalatingSignals # {}) =>
        situation.situation = ACCOUNTABILITY_REQUIRED

C2_Witness_UnknownRouteEscalated ==
    /\ pc = "decide"
    /\ Get(intent_signal, "route", "") = "URGENT"
    /\ Get(intent_signal, "signals", {}) = {"user_accountability"}
    /\ Get(intent_signal, "confidence", 0) = 900
    /\ situation.situation = ACCOUNTABILITY_REQUIRED

\* C3 -- Fail-closed classification, as claimed: when the external
\* classifier call raises or its output cannot be parsed, predict returns
\* route ACCOUNTABILITY_REQUIRED, confidence 0.2 and the signal llm:failure.
C3_FailClosedClassification ==
    (llm # NoVal /\ llm.kind = "raise") =>
        /\ Classified
        /\ intent_signal.route = ACCOUNTABILITY_REQUIRED
        /\ intent_signal.confidence = 200
        /\ "llm:failure" \in intent_signal.signals

\* What predict returns instead for a text without a high-risk keyword.
C3_Witness_FailOpen ==
    /\ Classified /\ llm.kind = "raise" /\ ~HasKeyword
    /\ intent_signal.route = INFORMATIONAL
    /\ intent_signal.confidence = 300
    /\ intent_signal.signals \cap {"llm_uncertain", "llm:failure"} = {"llm_uncertain"}

\* C4 -- Confidence guard.  With confidence below 0.4 (a missing confidence
\* counts as 0.0) a route that is DECISION_SUPPORT or ACCOUNTABILITY_REQUIRED
\* after the signal overrides is interpreted as ACCOUNTABILITY_REQUIRED; with
\* confidence at or above 0.4 a DECISION_SUPPORT route without escalating
\* signals stays DECISION_SUPPORT.
C4_ConfidenceGuard ==
    pc = "decide" =>
        LET signals == Get(intent_signal, "signals", {})
            confidence == Get(intent_signal, "confidence", 0)
            route == Get(intent_signal, "route", INFORMATIONAL)
        IN /\ (confidence < 400
                /\ signal_overrides(route, signals)
                     \in {DECISION_SUPPORT, ACCOUNTABILITY_REQUIRED})
              => situation.situation = ACCOUNTABILITY_REQUIRED
           /\ (confidence >= 400 /\ route = DECISION_SUPPORT
                /\ signals \cap EscalatingSignals = {})
              => situation.situation = DECISION_SUPPORT

C4_Witness_GuardFires ==
    /\ pc = "decide"
    /\ Get(intent_signal, "route", "") = DECISION_SUPPORT
    /\ Get(intent_signal, "confidence", 0) = 399
    /\ Get(intent_signal, "signals", {}) = {}
    /\ situation.situation = ACCOUNTABILITY_REQUIRED

\* C5 -- Refusal invariant, as claimed: whenever chat returns after a
\* verification with status INSUFFICIENT under a policy with refusal_allowed,
\* the envelope has status REFUSED and a non-empty refusal.needed list.
C5_RefusalInvariant ==
    (/\ pc = "chat_returned"
     /\ verification # NoVal
     /\ verification.status = "INSUFFICIENT"
     /\ situation.refusal_allowed) =>
        /\ brain_response.status = "REFUSED"
        /\ brain_response.refusal.needed # <<>>

\* The refusal that names nothing needed.
C5_Witness_EmptyNeeded ==
    /\ pc = "chat_returned"
    /\ verification # NoVal
    /\ verification.status = "INSUFFICIENT"
    /\ verification.gaps = <<>>
    /\ situation.refusal_allowed
    /\ brain_response.status = "REFUSED"
    /\ brain_response.refusal.needed = <<>>

\* C6 -- Exactly one envelope, as claimed: every request ends with a
\* rendered response envelope and never with an unhandled fault.
C6_AlwaysOneEnvelope ==
    pc = "done" => outcome.kind = "response"

\* A request that no service failed on and that ends in an unhandled fault.
C6_Witness_FaultWithoutFailure ==
    /\ pc = "done"
    /\ outcome.kind = "fault"
    /\ user_query = Q_hello
    /\ llm # NoVal /\ llm.kind = "json"
    /\ depth_llm # NoVal /\ depth_llm.kind = "json"
    /\ reasoning_decision # NoVal /\ ~HasAttr(reasoning_decision, "depth")

\* C7 -- End to end, as claimed: for a query with a high-risk keyword,
\* predict followed by interpret gives situation ACCOUNTABILITY_REQUIRED,
\* ruleset strict and verification_required true, and when the verification
\* then returns INSUFFICIENT the request ends with a refusal envelope that
\* lists what is needed.
C7_EndToEndHighRisk ==
    HasKeyword =>
        /\ (situation # NoVal =>
              /\ situation.situation = ACCOUNTABILITY_REQUIRED
              /\ situation.ruleset = "strict"
              /\ situation.verification_required)
        /\ (pc = "done" /\ verification # NoVal /\ verification.status = "INSUFFICIENT") =>
              /\ outcome.kind = "response"
              /\ outcome.status = "REFUSED"
              /\ "WHAT{U+2019}S NEEDED" \in Range(outcome.sections)

\* The request for which the first half holds and the second does not.
C7_Witness_StrictThenFault ==
    /\ pc = "done" /\ clean_query = Q_deploy
    /\ situation # NoVal
    /\ situation.situation = ACCOUNTABILITY_REQUIRED
    /\ situation.ruleset = "strict" /\ situation.verification_required
    /\ verification # NoVal /\ verification.status = "INSUFFICIENT"
    /\ outcome.kind = "fault"

\* C8 -- Invalid route correction, as claimed: a route outside the four
\* canonical values is replaced by ACCOUNTABILITY_REQUIRED with the tag
\* system:invalid_route_corrected, and the request is then handled with
\* verification required.
C8_InvalidRouteCorrected ==
    (/\ Classified
     /\ llm.kind = "json"
     /\ "route" \in DOMAIN llm.body
     /\ llm.body.route \notin CanonicalRoutes) =>
        /\ intent_signal.route = ACCOUNTABILITY_REQUIRED
        /\ "system:invalid_route_corrected" \in intent_signal.signals
        /\ (pc = "decide" => situation.verification_required)

\* The unknown route passes through predict and is served as INFORMATIONAL.
C8_Witness_UnknownRouteServed ==
    /\ pc = "decide"
    /\ llm.kind = "json" /\ Get(llm.body, "route", "") = "URGENT"
    /\ intent_signal.route = "URGENT"
    /\ situation.situation = INFORMATIONAL
    /\ ~situation.verification_required

\* C9 -- Depth fallback, as claimed: when no semantic profile is available
\* decide returns depth LIGHT, confidence 0.4 and the signal
\* fallback:no_semantic_profile, for every query.
C9_NoProfileFallback ==
    (pc = "chat" /\ semantic_profile = NoVal) =>
        /\ raw_decision.depth = "LIGHT"
        /\ raw_decision.confidence = 400
        /\ "fallback:no_semantic_profile" \in raw_decision.signals

\* Without a profile and without its client decide still answers RIGOROUS,
\* with confidence 0.5, from the wording of the query alone.
C9_Witness_RigorousWithoutProfile ==
    /\ pc = "chat" /\ ~controller_client
    /\ semantic_profile = NoVal
    /\ clean_query = Q_deploy
    /\ raw_decision = decide(clean_query, FALSE, NoVal)
    /\ raw_decision.depth = "RIGOROUS"
    /\ raw_decision.confidence = 500
    /\ raw_decision.signals = {"high_stakes_language"}

Confused ==
    /\ semantic_profile # NoVal
    /\ "confusion" \in DOMAIN semantic_profile
    /\ semantic_profile.confusion > 750

\* C10 -- Depth priority, as claimed: for every semantic profile with
\* confusion > 0.75 the decided depth is LIGHT, whatever the values of
\* decision_intent, novelty and technicality.
C10_ConfusionGivesLight ==
    (pc = "chat" /\ Confused) => raw_decision.depth = "LIGHT"

\* A confused user whose query is decided RIGOROUS; the profile only selects
\* the ELI5 explanation mode of the executor.
C10_Witness_ConfusedAndRigorous ==
    /\ pc = "chat" /\ Confused
    /\ semantic_profile.decision_intent = 900
    /\ raw_decision.depth = "RIGOROUS"
    /\ select_explanation_mode(semantic_profile) = "ELI5"

\* The requests chat has sent to a service so far.
CallsTo(svc) == SelectSeq(calls, LAMBDA c : c.svc = svc)

\* C11 -- Drift retry bound.  During one call of chat the text-generation
\* service is called at most twice: one generation and at most one
\* corrective regeneration, for every decided depth and every pair of
\* embeddings.
C11_DriftRetryBound ==
    Len(CallsTo("generate")) <= 2

C11_Witness_TwoGenerations ==
    /\ pc = "chat_returned"
    /\ reasoning_decision.depth = "RIGOROUS"
    /\ Len(CallsTo("generate")) = 2
    /\ CallsTo("generate")[2].arg = RETRY_PROMPT

ChatAnswered == pc = "chat_returned" /\ brain_response.status # "REFUSED"

\* C12 -- Idempotent redaction, as claimed: the answer chat returns has
\* been through the redaction pass, and applying the pass to it again
\* returns it unchanged.
C12_IdempotentRedaction ==
    ChatAnswered => security_scrub(brain_response.answer) = brain_response.answer

\* The answer that leaves the redaction pass with an address in it, which a
\* second pass would redact.
C12_Witness_AddressSurvives ==
    /\ ChatAnswered
    /\ brain_response.answer = <<"a","@","b",".","c","o">>
    /\ security_scrub(brain_response.answer) = SENSITIVE

\* The verification gate is closed: verification was required, came back
\* ERROR or INSUFFICIENT, and the policy allows a refusal.
GateRefuses ==
    /\ verification # NoVal
    /\ verification.status \in {"ERROR", "INSUFFICIENT"}
    /\ situation.verification_required
    /\ situation.refusal_allowed

\* C13 -- Verification gate, as claimed: when the gate is closed chat
\* returns a refusal envelope carrying reason, needed and why_it_matters and
\* has called neither the generation nor the embedding service; when
\* verification is not required the verification service is never called.
C13_VerificationGate ==
    /\ GateRefuses =>
         /\ CallsTo("generate") = <<>>
         /\ CallsTo("embed") = <<>>
         /\ pc = "chat_returned"
         /\ brain_response.status = "REFUSED"
         /\ {"reason", "needed", "why_it_matters"} \subseteq DOMAIN brain_response.refusal
    /\ ~situation.verification_required => CallsTo("verify") = <<>>

\* The gate closes on the decision handle_request passes, and chat raises
\* instead of returning the refusal.
C13_Witness_GateRaises ==
    /\ GateRefuses
    /\ pc = "except"
    /\ reasoning_decision = [py |-> "dict", depth |-> "standard", thinking |-> "practical"]
    /\ calls = <<Call("verify", "")>>
    /\ brain_response = NoVal

\* chat was called with a ReasoningDecision of depth RIGOROUS.
DecidedRigorous ==
    HasAttr(reasoning_decision, "depth") /\ reasoning_decision.depth = "RIGOROUS"

\* The generation requests of the reasoning step (all but the drift retry).
ReasoningPasses == SelectSeq(calls, LAMBDA c : c.svc = "generate" /\ c.arg # RETRY_PROMPT)

\* C14 -- Three passes, as claimed: at depth RIGOROUS the answer is produced
\* by three generation passes in the order Analysis, Critique, Synthesis.
C14_RigorousThreePasses ==
    (ChatAnswered /\ DecidedRigorous) => Len(ReasoningPasses) = 3

\* The RIGOROUS answer that one generation request produced.
C14_Witness_RigorousSinglePass ==
    /\ ChatAnswered /\ DecidedRigorous
    /\ select_explanation_mode(semantic_profile) = "NORMAL"
    /\ CallsTo("generate") = <<Call("generate", "You are a senior professional expert.")>>
    /\ brain_response.answer = G_yes

\* C15 -- Fallback, as claimed: at depth RIGOROUS an exception during the
\* generation does not make the executor fail; the answer then comes from
\* the STRUCTURED single-pass path.
C15_RigorousFallsBack ==
    DecidedRigorous =>
        /\ pc # "except"
        /\ (ChatAnswered /\ select_explanation_mode(semantic_profile) = "NORMAL") =>
              \/ Len(ReasoningPasses) = 3
              \/ ReasoningPasses[Len(ReasoningPasses)].arg = "Explain step by step."

\* The generation request raised and chat raised with it.
C15_Witness_RigorousRaises ==
    /\ DecidedRigorous
    /\ pc = "except"
    /\ calls = <<Call("generate", "You are a senior professional expert.")>>
    /\ raw_answer = <<>> /\ brain_response = NoVal

\* The policy tuple (ruleset, verification_required, refusal_allowed,
\* explanation_required) of a PolicyDecision.
PolicyTuple(d) ==
    <<d.ruleset, d.verification_required, d.refusal_allowed, d.explanation_required>>

\* C16 -- Policy table.  For every RiskSignal the PolicyDecision of
\* interpret has a situation among the four canonical routes, and its
\* policy tuple is the table row of that situation.
C16_PolicyTable ==
    pc = "decide" =>
        /\ situation.situation \in CanonicalRoutes
        /\ situation.situation = LOW_STAKES =>
              PolicyTuple(situation) = <<"relaxed", FALSE, FALSE, FALSE>>
        /\ situation.situation = INFORMATIONAL =>
              PolicyTuple(situation) = <<"standard", FALSE, FALSE, TRUE>>
        /\ situation.situation \in {DECISION_SUPPORT, ACCOUNTABILITY_REQUIRED} =>
              PolicyTuple(situation) = <<"strict", TRUE, TRUE, TRUE>>

\* A route without a table entry is interpreted as INFORMATIONAL.
C16_Witness_UnknownRouteRow ==
    /\ pc = "decide"
    /\ Get(intent_signal, "route", "") = "URGENT"
    /\ Get(intent_signal, "signals", {"x"}) = {}
    /\ situation.situation = INFORMATIONAL
    /\ PolicyTuple(situation) = <<"standard", FALSE, FALSE, TRUE>>

\* C17 -- Single source of truth: the sections of the rendered output are
\* fixed by the envelope; for the same envelope (and policy decision) every
\* other query text gives the same sections, LIMITS included.  The same
\* holds for the envelope without its refusal, the form in which step 8 of
\* handle_request copies it.
C17_StructureIgnoresQuery ==
    (pc = "done" /\ outcome.kind = "response") =>
        LET copy == Restrict(brain_response, DOMAIN brain_response \ {"refusal"})
        IN \A q \in Queries :
              /\ assemble(brain_response, q) = outcome.sections
              /\ assemble(copy, q) = assemble(copy, user_query)

\* A verified answer to a query with high-stakes wording, rendered with the
\* sections the same envelope gets for a query without it.
C17_Witness_SameSectionsHighStakes ==
    /\ pc = "done" /\ outcome.kind = "response"
    /\ user_query = Q_deploy /\ is_high_stakes(user_query)
    /\ ~is_high_stakes(Q_hello)
    /\ situation.verification_required
    /\ brain_response.status = "VERIFIED"
    /\ outcome.sections = assemble(brain_response, Q_hello)

\* The largest of four scores.
Max4(a, b, c, d) == CHOOSE m \in {a, b, c, d} : \A x \in {a, b, c, d} : x <= m

\* The depth the ordered rules give a profile with confusion <= 0.75.
RuleDepth(p) ==
    IF p.decision_intent > 650 THEN "RIGOROUS"
    ELSE IF p.novelty > 600 /\ p.confusion < 400 THEN "STRUCTURED"
    ELSE IF Max4(p.confusion, p.decision_intent, p.novelty, p.technicality) < 250 THEN "NONE"
    ELSE "LIGHT"

\* C18 -- Ordered depth rules, as claimed: with a semantic profile whose
\* confusion is at most 0.75 the decided depth is RIGOROUS for
\* decision_intent > 0.65, else STRUCTURED for novelty > 0.6 and
\* confusion < 0.4, else NONE when all four scores are below 0.25, else LIGHT.
C18_OrderedDepthRules ==
    (/\ pc = "chat"
     /\ semantic_profile # NoVal
     /\ {"confusion", "decision_intent", "novelty", "technicality"}
            \subseteq DOMAIN semantic_profile
     /\ semantic_profile.confusion <= 750)
    => raw_decision.depth = RuleDepth(semantic_profile)

\* A profile with decision_intent 0.9 and confusion 0.3, and a short
\* definition question that decide finds trivial.
C18_Witness_DecisionIntentTrivial ==
    /\ pc = "chat"
    /\ semantic_profile = [confusion |-> 300, decision_intent |-> 900,
                           technicality |-> 100, novelty |-> 500]
    /\ clean_query = Q_dns
    /\ raw_decision.depth = "NONE"
    /\ raw_decision.signals = {"trivial_query"}

\* A PolicyDecision without its record of the signals.
PolicyOf(d) == <<d.situation, PolicyTuple(d)>>

\* C19 -- Signal upgrade.  A RiskSignal of route INFORMATIONAL with the
\* signal decision_request, without regulatory_context and
\* user_accountability and with confidence >= 0.4, is interpreted as
\* DECISION_SUPPORT; for every other route the policy is the one interpret
\* gives the same RiskSignal without decision_request.
C19_SignalUpgrade ==
    (pc = "decide" /\ "decision_request" \in Get(intent_signal, "signals", {})) =>
        LET signals == intent_signal.signals
            route == Get(intent_signal, "route", INFORMATIONAL)
            without == [intent_signal EXCEPT !.signals = signals \ {"decision_request"}]
        IN /\ (route = INFORMATIONAL /\ signals \cap EscalatingSignals = {}
                /\ Get(intent_signal, "confidence", 0) >= 400)
              => situation.situation = DECISION_SUPPORT
           /\ route # INFORMATIONAL => PolicyOf(situation) = PolicyOf(interpret(without))

\* The upgrade at the guard's threshold, confidence 0.4.
C19_Witness_UpgradedAtThreshold ==
    /\ pc = "decide"
    /\ Get(intent_signal, "route", "") = INFORMATIONAL
    /\ Get(intent_signal, "signals", {}) = {"decision_request"}
    /\ Get(intent_signal, "confidence", 0) = 400
    /\ situation.situation = DECISION_SUPPORT
    /\ situation.verification_required

\* The drift check compared the two embeddings it was given.
Compared ==
    /\ pc = "respond"
    /\ Len(CallsTo("embed")) = 2
    /\ \A i \in 1..2 : CallsTo("embed")[i].reply.kind = "vector"

\* The regeneration requests of the drift check.
Regenerations == SelectSeq(calls, LAMBDA c : c.svc = "generate" /\ c.arg = RETRY_PROMPT)

\* C20 -- Drift check outcome.  With a question/answer similarity below
\* 0.55 the drift check sends exactly one regeneration request, as its last
\* request (no embedding follows it), and the text that request returns is
\* the answer; with a similarity at or above 0.55 it sends no regeneration
\* request and the answer is the original candidate.
C20_DriftCheckOutcome ==
    Compared =>
        IF similarity_below(CallsTo("embed")[1].reply.v, CallsTo("embed")[2].reply.v, 550)
        THEN /\ Len(Regenerations) = 1
             /\ calls[Len(calls)] = Regenerations[1]
             /\ Regenerations[1].reply.kind = "text" =>
                   final_answer = Strip(Regenerations[1].reply.content)
        ELSE /\ Regenerations = <<>>
             /\ final_answer = raw_answer

\* Orthogonal embeddings: the candidate is replaced by the regenerated text.
C20_Witness_Regenerated ==
    /\ Compared
    /\ CallsTo("embed")[1].reply.v = <<1, 0>>
    /\ CallsTo("embed")[2].reply.v = <<0, 1>>
    /\ Len(Regenerations) = 1
    /\ raw_answer = G_yes
    /\ Regenerations[1].reply = [kind |-> "text", content |-> G_pad]
    /\ final_answer = Strip(G_pad) /\ final_answer # raw_answer

\* An embedding request of the drift check failed.
EmbedFailed == \E i \in 1..Len(CallsTo("embed")) : CallsTo("embed")[i].reply.kind = "raise"

\* C21 -- Drift check degradation.  When the embedding of the question or
\* of the answer fails, chat does not raise, no regeneration is requested
\* and the drift check returns the original candidate answer.
C21_EmbedFailureSkipsCheck ==
    EmbedFailed =>
        /\ pc \in {"respond", "chat_returned"}
        /\ Regenerations = <<>>
        /\ pc = "respond" => final_answer = raw_answer

\* The embedding of the answer failed after the question was embedded.
C21_Witness_AnswerEmbedFails ==
    /\ pc = "respond"
    /\ Len(CallsTo("embed")) = 2
    /\ CallsTo("embed")[1].reply = [kind |-> "vector", v |-> <<1, 0>>]
    /\ CallsTo("embed")[2].reply = [kind |-> "raise"]
    /\ raw_answer = G_yes /\ final_answer = G_yes
    /\ CallsTo("generate")[Len(CallsTo("generate"))].arg # RETRY_PROMPT

\* C22 -- Envelope status.  A non-refused envelope has status VERIFIED
\* exactly when a verification was performed and returned status VERIFIED,
\* and CONDITIONAL otherwise; its confidence is High exactly when the status
\* is VERIFIED, and Medium otherwise.
C22_EnvelopeStatus ==
    ChatAnswered =>
        LET verified == /\ CallsTo("verify") # <<>>
                        /\ verification # NoVal
                        /\ verification.status = "VERIFIED"
        IN /\ brain_response.status = (IF verified THEN "VERIFIED" ELSE "CONDITIONAL")
           /\ brain_response.confidence =
                 (IF brain_response.status = "VERIFIED" THEN "High" ELSE "Medium")

\* A verification that took place and was not VERIFIED: the envelope is
\* CONDITIONAL with confidence Medium.
C22_Witness_UnverifiedConditional ==
    /\ ChatAnswered
    /\ CallsTo("verify") # <<>>
    /\ verification.status = "INSUFFICIENT"
    /\ brain_response.status = "CONDITIONAL"
    /\ brain_response.confidence = "Medium"

\* C23 -- Read-only decision records, as claimed: the executor is called
\* with the ReasoningDecision decide returned and the PolicyDecision
\* interpret returned, and an envelope reports the depth decide decided.
C23_DecisionsReachExecutor ==
    /\ reasoning_decision # NoVal =>
          /\ reasoning_decision = raw_decision
          /\ situation = interpret(intent_signal)
    /\ brain_response # NoVal => brain_response.reasoning_depth = raw_decision.depth

\* The decision decide returned and the dict the executor is called with.
C23_Witness_DecisionReplaced ==
    /\ pc = "chat"
    /\ clean_query = Q_deploy
    /\ raw_decision.py = "ReasoningDecision" /\ raw_decision.depth = "RIGOROUS"
    /\ reasoning_decision = [py |-> "dict", depth |-> "standard", thinking |-> "practical"]
    /\ situation = interpret(intent_signal)

\* C24 -- Confidence range, as claimed: the confidence of every RiskSignal
\* predict returns lies in [0,1], whatever confidence the external classifier
\* returned or left out.
C24_ConfidenceInRange ==
    Classified => (intent_signal.confidence >= 0 /\ intent_signal.confidence <= 1000)

\* The classifier's confidence 1.5 returned as it is.
C24_Witness_ConfidenceAboveOne ==
    /\ Classified
    /\ llm.kind = "json"
    /\ Get(llm.body, "confidence", NonNum) = Num(1500)
    /\ intent_signal.confidence = 1500

\* The text has a substring the pattern of the kind matches.
HasMatch(kind, text) == \E i \in 1..Len(text) : MatchEnd(kind, text, i) >= i

\* C25 -- Redacted output, as claimed: the answer text of every envelope
\* chat returns contains no email-like, no IP-address-like and no
\* long-hex-token-like substring and no emphasis markup.
C25_AnswerIsRedacted ==
    pc = "chat_returned" =>
        /\ \A kind \in {"email", "ip", "hex"} : ~HasMatch(kind, brain_response.answer)
        /\ ~Contains(brain_response.answer, STARS2)

\* A generated IP address, returned as the answer.
C25_Witness_IpAddressReturned ==
    /\ ChatAnswered
    /\ raw_answer = <<"1",".","2",".","3",".","4">>
    /\ brain_response.answer = raw_answer
    /\ HasMatch("ip", brain_response.answer)

\* Verification was required, came back ERROR or INSUFFICIENT, and the
\* policy does not allow a refusal.
GatePasses ==
    /\ verification # NoVal /\ verification.status \in {"ERROR", "INSUFFICIENT"}
    /\ situation.verification_required /\ ~situation.refusal_allowed

\* C26 -- Unverified content, as claimed: when verification is required,
\* refusal is not allowed and the verification returns ERROR or
\* INSUFFICIENT, chat does not refuse and generates with an empty context.
C26_EmptyContextWithoutRefusal ==
    GatePasses =>
        /\ context_text = <<>>
        /\ pc = "chat_returned" =>
              (brain_response.status # "REFUSED" /\ ReasoningPasses # <<>>)

\* Facts validated with confidence 0.5: INSUFFICIENT, and the content is the
\* context of the generation.
C26_Witness_UnverifiedContext ==
    /\ GatePasses /\ ChatAnswered
    /\ verification.status = "INSUFFICIENT" /\ verification.confidence = 500
    /\ verification.gaps = <<>>
    /\ context_text = <<"f","a","c","t","s">>
    /\ ReasoningPasses # <<>>
    /\ brain_response.status = "CONDITIONAL"

\* LOW_STAKES < INFORMATIONAL < DECISION_SUPPORT < ACCOUNTABILITY_REQUIRED
Severity(route) ==
    CASE route = LOW_STAKES -> 1
      [] route = INFORMATIONAL -> 2
      [] route = DECISION_SUPPORT -> 3
      [] route = ACCOUNTABILITY_REQUIRED -> 4

\* The external classifier returned one of the four canonical routes.
ClassifierRouteCanonical ==
    /\ llm # NoVal /\ llm.kind = "json"
    /\ "route" \in DOMAIN llm.body /\ llm.body.route \in CanonicalRoutes

\* C27 -- No de-escalation.  For every canonical route the external
\* classifier returns, with every signal set and confidence, the situation
\* that predict followed by interpret produces is at least as severe as the
\* classifier's route.
C27_NoDeEscalation ==
    (pc = "decide" /\ ClassifierRouteCanonical) =>
        Severity(situation.situation) >= Severity(llm.body.route)

\* A DECISION_SUPPORT of confidence 0.104, interpreted as
\* ACCOUNTABILITY_REQUIRED for a text without a high-risk keyword.
C27_Witness_LowConfidenceEscalated ==
    /\ pc = "decide" /\ ClassifierRouteCanonical /\ ~HasKeyword
    /\ llm.body.route = DECISION_SUPPORT
    /\ Get(llm.body, "confidence", NonNum) = Num(104)
    /\ intent_signal.route = DECISION_SUPPORT /\ intent_signal.confidence = 100
    /\ situation.situation = ACCOUNTABILITY_REQUIRED

\* The declaration chat was called with is the PolicyDecision interpret
\* produces for its situation.
Interpreted == situation = interpret([route |-> situation.situation])

\* C28 -- Gates agree.  In every PolicyDecision interpret produces
\* refusal_allowed equals verification_required; so a non-refused envelope
\* that chat returns under such a decision has status VERIFIED when
\* verification_required is true and CONDITIONAL when it is false.
C28_GatesAgree ==
    /\ pc = "chat" =>
          \A rs \in RiskSignals :
              interpret(rs).refusal_allowed = interpret(rs).verification_required
    /\ (ChatAnswered /\ Interpreted) =>
          brain_response.status =
              (IF situation.verification_required THEN "VERIFIED" ELSE "CONDITIONAL")

\* An answer under the ACCOUNTABILITY_REQUIRED row after a verification
\* that returned VERIFIED.
C28_Witness_VerifiedUnderStrictRow ==
    /\ ChatAnswered /\ Interpreted
    /\ situation.situation = ACCOUNTABILITY_REQUIRED
    /\ situation.verification_required /\ situation.refusal_allowed
    /\ verification.status = "VERIFIED"
    /\ brain_response.status = "VERIFIED"
    /\ brain_response.limits = <<>>

\* C29 -- Trigger cues, as claimed: for a query that contains one of the
\* RIGOROUS trigger cues decide returns depth RIGOROUS, whatever the LLM
\* assessment returns and when it fails or is disabled; and every decision
\* has one of the four depths.
C29_TriggerGivesRigorous ==
    pc = "chat" =>
        /\ raw_decision.depth \in DEPTHS
        /\ AnyIn(Lower(clean_query), RIGOROUS_TRIGGERS) => raw_decision.depth = "RIGOROUS"

\* A three-word definition question with the cue "tax": decided NONE before
\* the cues are looked at.
C29_Witness_TrivialWithCue ==
    /\ pc = "chat"
    /\ clean_query = Q_tax
    /\ AnyIn(Lower(clean_query), RIGOROUS_TRIGGERS)
    /\ is_trivial(clean_query)
    /\ raw_decision.depth = "NONE"
    /\ raw_decision.confidence = 900

\* The requests whose create_or_get_chat call has returned.
Returned == {r \in DOMAIN pc : pc[r] = "returned"}

\* C30 -- Chat session uniqueness, as claimed: at most one chat row exists
\* for the (user_id, project_id) of the requests, and all their
\* create_or_get_chat calls return the same chat id, also when the requests
\* run concurrently.
C30_OneChatPerPair ==
    /\ Len(MatchingChats(chats, REQUEST_USER, REQUEST_PROJECT)) <= 1
    /\ \A r1 \in Returned, r2 \in Returned : chat_id[r1] = chat_id[r2]

\* Two requests that both found no row and both inserted one; a third,
\* later request gets the first row.
C30_Witness_TwoRowsTwoIds ==
    /\ Returned = {"r1", "r2", "r3"}
    /\ Len(MatchingChats(chats, REQUEST_USER, REQUEST_PROJECT)) = 2
    /\ chat_id = [r1 |-> "chat_1", r2 |-> "chat_2", r3 |-> "chat_1"]

====
